---- MODULE Spec2Model ----
(***************************************************************************)
(* Workflow execution engine of jayasaireddyptcg/automation-pcg:           *)
(*   app/utils/expression.py    resolve_expression, interpolate            *)
(*   app/engine/node_handlers.py  handler registry and builtin handlers    *)
(*   app/engine/executor.py     WorkflowExecutor                           *)
(*                                                                         *)
(* Python strings are sequences of one-character strings, so that          *)
(* splitting, stripping, matching and concatenation are computed.  JSON    *)
(* values are tagged records [t |-> tag, v |-> payload].                   *)
(***************************************************************************)
EXTENDS Integers, Sequences, FiniteSets, TLC

(***************************************************************************)
(* Bounds of the model.                                                    *)
(***************************************************************************)
\* longest edge list of a workflow
MaxEdges == 2

(***************************************************************************)
(* String literals of the source, as character sequences.                  *)
(***************************************************************************)
s_trigger == <<"t", "r", "i", "g", "g", "e", "r">>
s_body == <<"b", "o", "d", "y">>
s_type == <<"t", "y", "p", "e">>
s_last_output == <<"_", "l", "a", "s", "t", "_", "o", "u", "t", "p", "u", "t">>
s_output == <<"o", "u", "t", "p", "u", "t">>
s_manual == <<"m", "a", "n", "u", "a", "l">>
s_subject == <<"s", "u", "b", "j", "e", "c", "t">>
s_sender == <<"s", "e", "n", "d", "e", "r">>
s_data == <<"d", "a", "t", "a">>
s_model == <<"m", "o", "d", "e", "l">>
s_email_content == <<"e", "m", "a", "i", "l", "_", "c", "o", "n", "t", "e", "n", "t">>
s_email_trigger == <<"e", "m", "a", "i", "l", "_", "t", "r", "i", "g", "g", "e", "r">>
s_summarize == <<"s", "u", "m", "m", "a", "r", "i", "z", "e">>
s_response == <<"r", "e", "s", "p", "o", "n", "s", "e">>

(***************************************************************************)
(* JSON values (Python None, str, int, dict, list).                        *)
(***************************************************************************)
VNone == [t |-> "none", v |-> 0]
VStr(s) == [t |-> "str", v |-> s]
VNum(n) == [t |-> "num", v |-> n]
VDict(f) == [t |-> "dict", v |-> f]
VList(q) == [t |-> "list", v |-> q]
EmptyDict == VDict([k \in {} |-> VNone])
EmptyList == VList(<<>>)

IsDict(x) == x.t = "dict"
IsList(x) == x.t = "list"
IsStr(x) == x.t = "str"

\* d.get(k, default) on a dict value
DictGet(d, k, default) == IF k \in DOMAIN d.v THEN d.v[k] ELSE default

\* d[k] = x on a dict value
DictSet(d, k, x) == VDict([j \in (DOMAIN d.v) \cup {k} |-> IF j = k THEN x ELSE d.v[j]])

\* Python truthiness, as used by "a or b"
Truthy(x) ==
    CASE x.t = "none" -> FALSE
      [] x.t = "str"  -> Len(x.v) > 0
      [] x.t = "num"  -> x.v # 0
      [] x.t = "dict" -> DOMAIN x.v # {}
      [] x.t = "list" -> Len(x.v) > 0

\* a or b
PyOr(a, b) == IF Truthy(a) THEN a ELSE b

(***************************************************************************)
(* String helpers.                                                         *)
(***************************************************************************)
IsPrefix(p, s) == Len(p) <= Len(s) /\ SubSeq(s, 1, Len(p)) = p

\* needle in haystack
Contains(s, needle) ==
    \E i \in 1..(Len(s) - Len(needle) + 1) : SubSeq(s, i, i + Len(needle) - 1) = needle

Whitespace == {" ", "\t", "\n", "\r"}

RECURSIVE LStrip(_)
LStrip(s) == IF s # <<>> /\ Head(s) \in Whitespace THEN LStrip(Tail(s)) ELSE s

RECURSIVE RStrip(_)
RStrip(s) ==
    IF s # <<>> /\ s[Len(s)] \in Whitespace THEN RStrip(SubSeq(s, 1, Len(s) - 1)) ELSE s

\* str.strip()
Strip(s) == RStrip(LStrip(s))

\* str.split("."): the segments between dots, empty segments kept
RECURSIVE SplitFrom(_, _, _)
SplitFrom(s, i, cur) ==
    IF i > Len(s) THEN <<cur>>
    ELSE IF s[i] = "." THEN <<cur>> \o SplitFrom(s, i + 1, <<>>)
    ELSE SplitFrom(s, i + 1, Append(cur, s[i]))

Split(s) == SplitFrom(s, 1, <<>>)

Digits == <<"0", "1", "2", "3", "4", "5", "6", "7", "8", "9">>

DigitOf(c) == CHOOSE d \in 0..9 : Digits[d + 1] = c

IsDigit(c) == \E d \in 0..9 : Digits[d + 1] = c

RECURSIVE DigitsValue(_, _)
DigitsValue(s, acc) ==
    IF s = <<>> THEN acc ELSE DigitsValue(Tail(s), 10 * acc + DigitOf(Head(s)))

\* int(part): [ok, n]; surrounding whitespace and one sign are accepted, ValueError otherwise
ParseInt(part) ==
    LET p == Strip(part)
        signed == p # <<>> /\ Head(p) \in {"+", "-"}
        ds == IF signed THEN Tail(p) ELSE p
    IN  IF ds # <<>> /\ \A i \in 1..Len(ds) : IsDigit(ds[i])
        THEN [ok |-> TRUE,
              n |-> IF signed /\ Head(p) = "-" THEN 0 - DigitsValue(ds, 0) ELSE DigitsValue(ds, 0)]
        ELSE [ok |-> FALSE, n |-> 0]

RECURSIVE NatStr(_)
NatStr(n) == IF n < 10 THEN <<Digits[n + 1]>> ELSE Append(NatStr(n \div 10), Digits[(n % 10) + 1])

IntStr(n) == IF n < 0 THEN <<"-">> \o NatStr(0 - n) ELSE NatStr(n)

\* the keys of a dict in the order the dict holds them (not kept by the model: one fixed order)
RECURSIVE KeyOrder(_)
KeyOrder(S) == IF S = {} THEN <<>> ELSE LET k == CHOOSE k \in S : TRUE IN <<k>> \o KeyOrder(S \ {k})

RECURSIVE PyRepr(_)
RECURSIVE ReprItems(_, _)
RECURSIVE ReprElems(_)
\* repr(x), as str() uses it for the members of a dict or a list
PyRepr(x) ==
    CASE x.t = "none" -> <<"N", "o", "n", "e">>
      [] x.t = "str"  -> <<"'">> \o x.v \o <<"'">>
      [] x.t = "num"  -> IntStr(x.v)
      [] x.t = "dict" -> <<"{">> \o ReprItems(x.v, KeyOrder(DOMAIN x.v)) \o <<"}">>
      [] x.t = "list" -> <<"[">> \o ReprElems(x.v) \o <<"]">>

ReprItems(f, ks) ==
    IF ks = <<>> THEN <<>>
    ELSE <<"'">> \o Head(ks) \o <<"'", ":", " ">> \o PyRepr(f[Head(ks)])
         \o (IF Len(ks) > 1 THEN <<",", " ">> ELSE <<>>) \o ReprItems(f, Tail(ks))

ReprElems(q) ==
    IF q = <<>> THEN <<>>
    ELSE PyRepr(Head(q)) \o (IF Len(q) > 1 THEN <<",", " ">> ELSE <<>>) \o ReprElems(Tail(q))

\* str(x)
PyStr(x) == IF x.t = "str" THEN x.v ELSE PyRepr(x)

(***************************************************************************)
(* app/utils/expression.py                                                 *)
(***************************************************************************)
\* one step of the walk of resolve_expression: the value under `part`, VNone when absent
ResolveStep(current, part) ==
    CASE IsDict(current) -> DictGet(current, part, VNone)
      [] IsList(current) ->
            LET r == ParseInt(part)
                n == Len(current.v)
            IN  IF ~r.ok THEN VNone
                ELSE IF r.n >= 0 /\ r.n < n THEN current.v[r.n + 1]
                ELSE IF r.n < 0 /\ r.n >= 0 - n THEN current.v[n + r.n + 1]
                ELSE VNone
      [] OTHER -> VNone

RECURSIVE ResolveParts(_, _)
ResolveParts(current, parts) ==
    IF parts = <<>> THEN current
    ELSE LET nxt == ResolveStep(current, Head(parts))
         IN  IF nxt = VNone THEN VNone ELSE ResolveParts(nxt, Tail(parts))

resolve_expression(expression, ctx) == ResolveParts(ctx, Split(Strip(expression)))

\* "{{" at position i of s
OpenAt(s, i) == i + 1 <= Len(s) /\ s[i] = "{" /\ s[i + 1] = "{"

\* "}}" at position i of s
CloseAt(s, i) == i + 1 <= Len(s) /\ s[i] = "}" /\ s[i + 1] = "}"

\* a pattern that no string matches in full: a lone token is substituted as text
FullMatch_Never(s) == FALSE

\* the pattern with a group of no character or more: "{{}}" is a token
FullMatch_EmptyGroup(s) ==
    /\ Len(s) >= 4 /\ OpenAt(s, 1) /\ CloseAt(s, Len(s) - 1)
    /\ \A k \in 3..(Len(s) - 2) : s[k] # "\n"

\* EXPRESSION_PATTERN.fullmatch(template): "{{", one or more characters other than a
\* newline, "}}", nothing else
FullMatch(s) ==
    /\ Len(s) >= 5 /\ OpenAt(s, 1) /\ CloseAt(s, Len(s) - 1)
    /\ \A k \in 3..(Len(s) - 2) : s[k] # "\n"

\* the group of a full match
FullGroup(s) == SubSeq(s, 3, Len(s) - 2)

\* the positions j of the "}}" that can close a token opened at i: a group of one character
\* or more, none of them a newline
Closers(s, i) ==
    {j \in (i + 3)..(Len(s) - 1) : CloseAt(s, j) /\ \A k \in (i + 2)..(j - 1) : s[k] # "\n"}

\* EXPRESSION_PATTERN.sub(replacer, template), scanning from position i
RECURSIVE SubFrom(_, _, _)
SubFrom(s, i, ctx) ==
    IF i > Len(s) THEN <<>>
    ELSE IF OpenAt(s, i) /\ Closers(s, i) # {}
         THEN LET j == CHOOSE j \in Closers(s, i) : \A k \in Closers(s, i) : j <= k
                  val == resolve_expression(SubSeq(s, i + 2, j - 1), ctx)
              IN  (IF val # VNone THEN PyStr(val) ELSE <<>>) \o SubFrom(s, j + 2, ctx)
         ELSE <<s[i]>> \o SubFrom(s, i + 1, ctx)

RECURSIVE interpolate(_, _)
interpolate(template, ctx) ==
    CASE IsStr(template) ->
            IF FullMatch(template.v)
            THEN resolve_expression(FullGroup(template.v), ctx)
            ELSE VStr(SubFrom(template.v, 1, ctx))
      [] IsDict(template) -> VDict([k \in DOMAIN template.v |-> interpolate(template.v[k], ctx)])
      [] IsList(template) -> VList([i \in 1..Len(template.v) |-> interpolate(template.v[i], ctx)])
      [] OTHER -> template

(***************************************************************************)
(* app/engine/node_handlers.py                                             *)
(*                                                                         *)
(* A handler's execute yields [ok |-> TRUE, result |-> dict] when it       *)
(* returns and [ok |-> FALSE, exc |-> text] when it raises.                *)
(***************************************************************************)
s_http_request == <<"h", "t", "t", "p", "_", "r", "e", "q", "u", "e", "s", "t">>
x_UnknownNodeType == <<"V", "a", "l", "u", "e", "E", "r", "r", "o", "r", ":", " ", "U", "n", "k", "n", "o", "w", "n", " ", "n", "o", "d", "e", " ", "t", "y", "p", "e">>
x_ApiKeyRequired == <<"V", "a", "l", "u", "e", "E", "r", "r", "o", "r", ":", " ", "O", "p", "e", "n", "A", "I", " ", "A", "P", "I", " ", "k", "e", "y", " ", "i", "s", " ", "r", "e", "q", "u", "i", "r", "e", "d">>
x_AttributeError == <<"A", "t", "t", "r", "i", "b", "u", "t", "e", "E", "r", "r", "o", "r">>
x_APIError == <<"o", "p", "e", "n", "a", "i", ".", "A", "P", "I", "E", "r", "r", "o", "r">>
x_DBAPIError == <<"s", "q", "l", "a", "l", "c", "h", "e", "m", "y", ".", "e", "x", "c", ".", "D", "B", "A", "P", "I", "E", "r", "r", "o", "r">>

Returns(result) == [ok |-> TRUE, result |-> result, exc |-> <<>>]
Raises(exc) == [ok |-> FALSE, result |-> VNone, exc |-> exc]

\* EmailTriggerNodeHandler.execute
EmailTriggerNodeHandler(data, ctx) ==
    LET trigger == DictGet(ctx, s_trigger, EmptyDict)
        outer == IF IsDict(trigger) THEN DictGet(trigger, s_body, EmptyDict) ELSE VNone
        trigger_body ==
            IF IsDict(outer) /\ s_body \in DOMAIN outer.v /\ IsDict(outer.v[s_body])
            THEN outer.v[s_body] ELSE outer
    IN  IF ~IsDict(trigger) \/ ~IsDict(trigger_body) THEN Raises(x_AttributeError)
        ELSE Returns(VDict(s_output :> VDict(
                (s_subject :> PyOr(DictGet(trigger_body, s_subject, VNone),
                                   DictGet(data, <<"t", "e", "s", "t", "_", "s", "u", "b", "j", "e", "c", "t">>, VStr(<<"(", "N", "o", " ", "S", "u", "b", "j", "e", "c", "t", ")">>))))
             @@ (s_body :> PyOr(DictGet(trigger_body, s_body, VNone),
                                DictGet(data, <<"t", "e", "s", "t", "_", "b", "o", "d", "y">>, VStr(<<"(", "N", "o", " ", "B", "o", "d", "y", ")">>))))
             @@ (s_sender :> PyOr(DictGet(trigger_body, s_sender, VNone),
                                  DictGet(data, <<"t", "e", "s", "t", "_", "s", "e", "n", "d", "e", "r">>, VStr(<<"u", "n", "k", "n", "o", "w", "n", "@", "e", "x", "a", "m", "p", "l", "e", ".", "c", "o", "m">>))))
             @@ (<<"a", "t", "t", "a", "c", "h", "m", "e", "n", "t", "s">> :> PyOr(DictGet(trigger_body, <<"a", "t", "t", "a", "c", "h", "m", "e", "n", "t", "s">>, VNone), EmptyList))
             @@ (<<"r", "e", "c", "e", "i", "v", "e", "d", "_", "a", "t">> :> PyOr(DictGet(trigger_body, <<"r", "e", "c", "e", "i", "v", "e", "d", "_", "a", "t">>, VNone), VStr(<<>>)))
             @@ (<<"r", "a", "w">> :> trigger_body))))

\* ResponseNodeHandler.execute
ResponseNodeHandler(data) ==
    Returns(VDict(s_output :> VDict((s_type :> VStr(<<"j", "s", "o", "n">>))
                                 @@ (s_data :> DictGet(data, s_body, EmptyDict)))))

\* the replies of the chat endpoint that the model draws from: none holds a section heading
LLMReplies == {<<"o", "k">>}

\* extract_section(text, heading): re.search finds no heading in a reply of LLMReplies
extract_section(text, heading) == IF Contains(text, heading) THEN text ELSE <<>>

\* SummarizeNodeHandler.execute; OPENAI_API_KEY is the process setting, upstream the
\* outcome of the chat call: [ok |-> FALSE] when it raises, else the reply and its usage
SummarizeNodeHandler(data, OPENAI_API_KEY, upstream) ==
    LET given == DictGet(data, <<"a", "p", "i", "_", "k", "e", "y">>, VStr(<<>>))
        api_key == IF IsStr(given) /\ Strip(given.v) # <<>> THEN Strip(given.v) ELSE OPENAI_API_KEY
        model == DictGet(data, s_model, VStr(<<"g", "p", "t", "-", "4", "o">>))
        text == upstream.reply
    IN  IF ~IsStr(given) THEN Raises(x_AttributeError)
        ELSE IF api_key = <<>> THEN Raises(x_ApiKeyRequired)
        ELSE IF ~upstream.ok THEN Raises(x_APIError)
        ELSE Returns(VDict(
                (s_output :> VDict(
                    (<<"s", "u", "m", "m", "a", "r", "y">> :> VStr(text))
                 @@ (<<"o", "v", "e", "r", "v", "i", "e", "w">> :> VStr(extract_section(text, <<"S", "u", "m", "m", "a", "r", "y">>)))
                 @@ (<<"k", "e", "y", "_", "p", "o", "i", "n", "t", "s">> :> VStr(extract_section(text, <<"K", "e", "y", " ", "P", "o", "i", "n", "t", "s">>)))
                 @@ (<<"a", "c", "t", "i", "o", "n", "_", "i", "t", "e", "m", "s">> :> VStr(extract_section(text, <<"A", "c", "t", "i", "o", "n", " ", "I", "t", "e", "m", "s">>)))
                 @@ (<<"s", "e", "n", "t", "i", "m", "e", "n", "t">> :> VStr(extract_section(text, <<"S", "e", "n", "t", "i", "m", "e", "n", "t">>)))
                 @@ (<<"c", "a", "t", "e", "g", "o", "r", "y">> :> VStr(extract_section(text, <<"C", "a", "t", "e", "g", "o", "r", "y">>)))
                 @@ (s_model :> model)))
             @@ (<<"t", "o", "k", "e", "n", "_", "u", "s", "a", "g", "e">> :> VDict((<<"p", "r", "o", "m", "p", "t", "_", "t", "o", "k", "e", "n", "s">> :> VNum(upstream.tokens))
                                       @@ (<<"c", "o", "m", "p", "l", "e", "t", "i", "o", "n", "_", "t", "o", "k", "e", "n", "s">> :> VNum(upstream.tokens))
                                       @@ (<<"t", "o", "t", "a", "l", "_", "t", "o", "k", "e", "n", "s">> :> VNum(2 * upstream.tokens))))))

\* the node types of the registry
_HANDLERS == {s_email_trigger, <<"e", "x", "t", "r", "a", "c", "t", "_", "c", "o", "n", "t", "e", "n", "t">>, s_summarize, <<"g", "o", "o", "g", "l", "e", "_", "s", "h", "e", "e", "t", "s">>, s_response}

\* get_node_handler with a fallback for the types the registry lacks instead of ValueError
get_node_handler_Fallback(node_type) ==
    Returns(VStr(IF node_type \in _HANDLERS THEN node_type ELSE s_response))

\* get_node_handler: the registered type, or ValueError
get_node_handler(node_type) ==
    IF node_type \in _HANDLERS THEN Returns(VStr(node_type)) ELSE Raises(x_UnknownNodeType)

\* what the environment decides during a handler call
ApiKeys == {<<>>, <<"s", "k">>}
Upstreams == {[ok |-> FALSE, reply |-> <<>>, tokens |-> 0]}
             \cup {[ok |-> TRUE, reply |-> r, tokens |-> 7] : r \in LLMReplies}

\* handler.execute(resolved_data, context, db) for the handlers the workflows of the model use
HandlerExecute(handler, data, ctx, OPENAI_API_KEY, upstream) ==
    CASE handler = s_email_trigger -> EmailTriggerNodeHandler(data, ctx)
      [] handler = s_response -> ResponseNodeHandler(data)
      [] handler = s_summarize -> SummarizeNodeHandler(data, OPENAI_API_KEY, upstream)

\* an execute that clears the trigger of the context it was handed
ContextAfterExecute_Clears(handler, ctx) == DictSet(ctx, s_trigger, EmptyDict)

\* the dict handed to handler.execute as context, as execute leaves it: no execute of
\* node_handlers.py assigns to a key of its context parameter, deletes one or calls a
\* mutating method on it; EmailTriggerNodeHandler reads it (line 30), the others ignore it
ContextAfterExecute(handler, ctx) == ctx

(***************************************************************************)
(* The workflows the model runs (app/models/workflow.py).                  *)
(***************************************************************************)
\* a WorkflowNode row
WorkflowNode(id, node_key, type, data) ==
    [id |-> id, node_key |-> node_key, type |-> type, data |-> data]

\* a WorkflowEdge row
WorkflowEdge(source, target) == [source |-> source, target |-> target]

\* the trigger node, keyed A
NodeA == WorkflowNode(<<"n", "1">>, <<"A">>, s_email_trigger, EmptyDict)

\* the node keyed S: a summarize node, or a node of a type the registry lacks
NodeS(type) ==
    WorkflowNode(<<"n", "2">>, <<"S">>, type,
                 VDict(s_email_content :> VStr(<<"R", "e", ":", " ", "{", "{", "A", ".", "o", "u", "t", "p", "u", "t", ".", "s", "u", "b", "j", "e", "c", "t", "}", "}">>)))

\* the response node: keyed R, or with the empty default node_key and the persistent id R
NodeR(keyed) ==
    WorkflowNode(IF keyed THEN <<"n", "3">> ELSE <<"R">>, IF keyed THEN <<"R">> ELSE <<>>, s_response,
                 VDict(s_body :> VDict(<<"w", "h", "o">> :> VStr(<<"{", "{", "A", ".", "o", "u", "t", "p", "u", "t", ".", "s", "e", "n", "d", "e", "r", "}", "}">>))))

\* the node lists: every sublist of A, S, R, and the lists with a variant of S or of R
NodeLists ==
    {a \o s \o r : a \in {<<>>, <<NodeA>>},
                   s \in {<<>>, <<NodeS(s_summarize)>>},
                   r \in {<<>>, <<NodeR(TRUE)>>}}
    \cup {<<NodeS(s_http_request)>>, <<NodeA, NodeS(s_http_request), NodeR(TRUE)>>,
          <<NodeR(FALSE)>>, <<NodeA, NodeR(FALSE)>>, <<NodeA, NodeS(s_summarize), NodeR(FALSE)>>}

\* the strings an edge may name: the three node keys and X, the key of no node
EdgeKeys == {<<"A">>, <<"S">>, <<"R">>, <<"X">>}

\* the place of a key in the order A, S, R, X
KeyRank(k) == CHOOSE i \in 1..4 : <<<<"A">>, <<"S">>, <<"R">>, <<"X">>>>[i] = k

\* the edge lists of MaxEdges edges or fewer, any endpoints, duplicates and self-loops
\* included.  _topological_sort reads the list through adjacency[src] and in_degree[tgt]
\* only, which depend on the relative order of the edges of one source and on nothing else
\* of the order: the lists are taken with their edges grouped by source.
EdgeLists ==
    {es \in UNION {[1..n -> {WorkflowEdge(s, t) : s \in EdgeKeys, t \in EdgeKeys}] : n \in 0..MaxEdges} :
        \A i \in 1..(Len(es) - 1) : KeyRank(es[i].source) <= KeyRank(es[i + 1].source)}

Workflows ==
    {[id |-> <<"w", "1">>, variables |-> EmptyDict, nodes |-> ns, edges |-> es] :
        ns \in NodeLists, es \in EdgeLists}

\* the request bodies
Payloads == {EmptyDict, VDict(s_sender :> VStr(<<"b", "o", "b", "@", "x">>))}

(***************************************************************************)
(* app/engine/executor.py                                                  *)
(***************************************************************************)
VARIABLES
    workflow,         \* the Workflow row handed to execute, with its nodes and edges
    pc,               \* where execute is
    runs,             \* the WorkflowRun objects added to the session, in order
    run,              \* execute's local `run`: an index into runs, 0 before the first call
    node_runs,        \* the NodeRun objects added to the session, in order
    context,          \* self.context
    nodes_map,        \* execute's local nodes_map
    sorted_node_ids,  \* execute's local sorted_node_ids
    pos,              \* the position of the for loop in sorted_node_ids
    invoked,          \* the calls of handler.execute, in order: the node's key and how the call ended
    raised            \* the exception that left execute, <<>> when none

vars == <<workflow, pc, runs, run, node_runs, context, nodes_map, sorted_node_ids, pos,
          invoked, raised>>

\* traceback.format_exc() of the exception exc
format_exc(exc) == <<"T", "r", "a", "c", "e", "b", "a", "c", "k", " ", "(", "m", "o", "s", "t", " ", "r", "e", "c", "e", "n", "t", " ", "c", "a", "l", "l", " ", "l", "a", "s", "t", ")", ":", " ">> \o exc

\* WorkflowRun(...) of lines 31-37
NewRun(wf, input_payload, trigger_type) ==
    [workflow_id |-> wf.id, status |-> "running", trigger_type |-> trigger_type,
     input_payload |-> input_payload, output_payload |-> VNone, error |-> VNone,
     completed_at |-> FALSE]

\* NodeRun(...) of lines 80-85
NewNodeRun(run_id, node) ==
    [run_id |-> run_id, node_id |-> node.id, node_key |-> VNone, status |-> "running",
     input_data |-> VNone, output_data |-> VNone, error |-> VNone, token_usage |-> VNone,
     started_at |-> TRUE, execution_time_ms |-> FALSE, completed_at |-> FALSE]

\* n.node_key or str(n.id)
KeyOf(n) == IF n.node_key # <<>> THEN n.node_key ELSE n.id

\* the context of lines 42-46
InitialContext(wf, input_payload, trigger_type) ==
    VDict((s_trigger :> VDict((s_body :> input_payload) @@ (s_type :> VStr(trigger_type))))
       @@ (<<"w", "o", "r", "k", "f", "l", "o", "w">> :> VDict((<<"v", "a", "r", "i", "a", "b", "l", "e", "s">> :> PyOr(wf.variables, EmptyDict))
                            @@ (<<"i", "d">> :> VStr(wf.id))))
       @@ (<<"e", "n", "v">> :> EmptyDict))

\* the dict comprehension of line 51: a later node replaces an earlier one of the same key
RECURSIVE NodesMap(_)
NodesMap(ns) ==
    IF ns = <<>> THEN [k \in {} |-> NodeA]
    ELSE LET rest == NodesMap(SubSeq(ns, 1, Len(ns) - 1))
             n == ns[Len(ns)]
         IN  [k \in (DOMAIN rest) \cup {KeyOf(n)} |-> IF k = KeyOf(n) THEN n ELSE rest[k]]

\* the orders in which a set of keys may be iterated
SetOrders(S) == {q \in [1..Cardinality(S) -> S] : \A i, j \in 1..Cardinality(S) : i # j => q[i] # q[j]}

\* in_degree after the loop of lines 127-131 and the defaults of lines 134-136
InDegree(ids, edges) ==
    [k \in ids \cup {edges[i].target : i \in 1..Len(edges)} |->
        Cardinality({i \in 1..Len(edges) : edges[i].target = k})]

\* adjacency.get(current, []) after the loop of lines 127-131
Adjacency(edges, current) ==
    LET from == SelectSeq(edges, LAMBDA e : e.source = current)
    IN  [i \in 1..Len(from) |-> from[i].target]

\* lines 144-147 with the neighbour queued when its in-degree falls to one as well
RECURSIVE Relax_OffByOne(_, _, _)
Relax_OffByOne(neighbors, in_degree, queue) ==
    IF neighbors = <<>> THEN [in_degree |-> in_degree, queue |-> queue]
    ELSE LET nb == Head(neighbors)
             deg == [in_degree EXCEPT ![nb] = @ - 1]
         IN  Relax_OffByOne(Tail(neighbors), deg, IF deg[nb] \in {0, 1} THEN Append(queue, nb) ELSE queue)

\* the for loop of lines 144-147 over the neighbours of the node popped
RECURSIVE Relax(_, _, _)
Relax(neighbors, in_degree, queue) ==
    IF neighbors = <<>> THEN [in_degree |-> in_degree, queue |-> queue]
    ELSE LET nb == Head(neighbors)
             deg == [in_degree EXCEPT ![nb] = @ - 1]
         IN  Relax(Tail(neighbors), deg, IF deg[nb] = 0 THEN Append(queue, nb) ELSE queue)

\* the while loop of lines 141-147
RECURSIVE Drain(_, _, _, _)
Drain(queue, in_degree, edges, sorted_nodes) ==
    IF queue = <<>> THEN sorted_nodes
    ELSE LET current == Head(queue)
             r == Relax(Adjacency(edges, current), in_degree, Tail(queue))
         IN  Drain(r.queue, r.in_degree, edges, Append(sorted_nodes, current))

\* lines 138-147 with every node queued whatever its in-degree
_topological_sort_Unordered(nmap, edges, order) == order

\* _topological_sort(nodes_map, edges); order is the order in which the set all_node_ids
\* of line 125 is iterated at line 138
_topological_sort(nmap, edges, order) ==
    LET in_degree == InDegree(DOMAIN nmap, edges)
        queue == SelectSeq(order, LAMBDA nid : in_degree[nid] = 0)
    IN  Drain(queue, in_degree, edges, <<>>)

\* lines 71-73: the error boundary of execute
OuterExcept(r, exc) == [r EXCEPT !.status = "failed", !.error = VStr(format_exc(exc))]

\* lines 62-64 with the node's persistent id in the message instead of its key
AfterNode_PersistentId(r, node_id, node_run) ==
    IF node_run.status = "failed"
    THEN [r EXCEPT !.status = "failed",
                   !.error = VStr(<<"N", "o", "d", "e", " ">> \o node_run.node_id \o <<" ", "f", "a", "i", "l", "e", "d", ":", " ">> \o PyStr(node_run.error))]
    ELSE r

\* lines 62-64: what execute does with the NodeRun that _execute_node returned
AfterNode(r, node_id, node_run) ==
    IF node_run.status = "failed"
    THEN [r EXCEPT !.status = "failed",
                   !.error = VStr(<<"N", "o", "d", "e", " ">> \o node_id \o <<" ", "f", "a", "i", "l", "e", "d", ":", " ">> \o PyStr(node_run.error))]
    ELSE r

\* lines 67-69 without the test of line 67: a failed run is completed
AfterLoop_NoGuard(r, ctx) ==
    [r EXCEPT !.status = "completed", !.output_payload = DictGet(ctx, s_last_output, EmptyDict)]

\* lines 67-69 with the output taken from the trigger body instead of _last_output
AfterLoop_TriggerBody(r, ctx) ==
    IF r.status # "failed"
    THEN [r EXCEPT !.status = "completed",
                   !.output_payload = DictGet(DictGet(ctx, s_trigger, EmptyDict), s_body, EmptyDict)]
    ELSE r

\* lines 67-69: after the loop
AfterLoop(r, ctx) ==
    IF r.status # "failed"
    THEN [r EXCEPT !.status = "completed",
                   !.output_payload = DictGet(ctx, s_last_output, EmptyDict)]
    ELSE r

\* lines 101-108: a handler returned result
NodeSucceeded(nr, node, result) ==
    [nr EXCEPT !.node_key = VStr(KeyOf(node)),
               !.output_data = DictGet(result, s_output, EmptyDict),
               !.token_usage = DictGet(result, <<"t", "o", "k", "e", "n", "_", "u", "s", "a", "g", "e">>, VNone),
               !.status = "completed"]

\* lines 101-103 with the output stored under the node's persistent id
ContextAfter_PersistentId(ctx, node, result) ==
    DictSet(DictSet(ctx, node.id, VDict(s_output :> DictGet(result, s_output, EmptyDict))),
            s_last_output, DictGet(result, s_output, EmptyDict))

\* lines 101-103: the context after a handler returned result
ContextAfter(ctx, node, result) ==
    DictSet(DictSet(ctx, KeyOf(node), VDict(s_output :> DictGet(result, s_output, EmptyDict))),
            s_last_output, DictGet(result, s_output, EmptyDict))

\* lines 110-112
NodeFailed(nr, exc) == [nr EXCEPT !.status = "failed", !.error = VStr(format_exc(exc))]

\* lines 114-116 inside the try block: a NodeRun that failed keeps no timing
NodeTimed_OnlyCompleted(nr) ==
    IF nr.status = "completed"
    THEN [nr EXCEPT !.execution_time_ms = TRUE, !.completed_at = TRUE]
    ELSE nr

\* lines 114-116
NodeTimed(nr) == [nr EXCEPT !.execution_time_ms = TRUE, !.completed_at = TRUE]

(***************************************************************************)
(* The server process: the rows the poller and the routes read and write   *)
(* (app/models/integration.py, app/models/workflow.py), the mailboxes of   *)
(* the upstream, and the tasks of the event loop.                          *)
(***************************************************************************)
\* the bounds of the server model
MaxMessages == 2
MaxTicks == 2
MaxRequests == 1

\* max_results of the two fetches of _poll_integration
UnreadMax == 10
SinceMax == 50

\* encrypt_credentials and decrypt_credentials: json under Fernet, opaque when sealed
encrypt_credentials(creds) == [sealed |-> creds]
decrypt_credentials(encrypted) == encrypted.sealed

\* Integration rows: two active gmail integrations of user u1 and one that is not active
Integration(id, user_id, type, status) == [id |-> id, user_id |-> user_id, type |-> type, status |-> status]
Integrations ==
    <<Integration(<<"g", "1">>, <<"u", "1">>, <<"g", "m", "a", "i", "l">>, <<"a", "c", "t", "i", "v", "e">>),
      Integration(<<"g", "2">>, <<"u", "1">>, <<"g", "m", "a", "i", "l">>, <<"a", "c", "t", "i", "v", "e">>),
      Integration(<<"g", "3">>, <<"u", "1">>, <<"g", "m", "a", "i", "l">>, <<"i", "n", "a", "c", "t", "i", "v", "e">>)>>
IntegrationIds == {Integrations[i].id : i \in 1..Len(Integrations)}
IntegrationRow(id) == Integrations[CHOOSE i \in 1..Len(Integrations) : Integrations[i].id = id]

\* an email_trigger node configured for the integration id
TriggerNode(integration_id) ==
    WorkflowNode(<<"n", "1">>, <<"A">>, s_email_trigger,
                 VDict(<<"t", "r", "i", "g", "g", "e", "r", "_", "c", "o", "n", "f", "i", "g">> :> VDict(<<"i", "n", "t", "e", "g", "r", "a", "t", "i", "o", "n", "_", "i", "d">> :> VStr(integration_id))))

\* a node whose data holds value as the integration_id of its trigger_config
ConfiguredNode(id, node_key, type, value) ==
    WorkflowNode(id, node_key, type, VDict(<<"t", "r", "i", "g", "g", "e", "r", "_", "c", "o", "n", "f", "i", "g">> :> VDict(<<"i", "n", "t", "e", "g", "r", "a", "t", "i", "o", "n", "_", "i", "d">> :> value)))

\* Workflow rows of user u1: both have an email_trigger node configured for g1, the
\* second after an email_trigger node configured for g3, the integration that is not active
ServedWorkflows ==
    <<[id |-> <<"w", "1">>, user_id |-> <<"u", "1">>, variables |-> EmptyDict, nodes |-> <<TriggerNode(<<"g", "1">>)>>, edges |-> <<>>],
      [id |-> <<"w", "2">>, user_id |-> <<"u", "1">>, variables |-> EmptyDict,
       nodes |-> <<ConfiguredNode(<<"n", "4">>, <<"T">>, s_email_trigger, VStr(<<"g", "3">>)), TriggerNode(<<"g", "1">>)>>, edges |-> <<>>]>>
WorkflowIds == {ServedWorkflows[i].id : i \in 1..Len(ServedWorkflows)}
WorkflowRow(id) == ServedWorkflows[CHOOSE i \in 1..Len(ServedWorkflows) : ServedWorkflows[i].id = id]

\* the tasks of the event loop: the poller's task and the task of a request
TaskIds == {"loop", "req"}

\* no call of _poll_integration, no call of execute
NoPoll == [state |-> "none"]
NoCall == [state |-> "none"]

\* a task that is not running
IdleTask ==
    [kind |-> "none", pc |-> "idle", instance |-> "none", integration |-> <<>>, tick |-> 0,
     selected |-> FALSE, queue |-> <<>>, polled |-> <<>>, poll |-> NoPoll,
     call |-> NoCall, workflow |-> <<>>, http |-> 0]

VARIABLES
    wf_status,         \* Workflow.status of each served workflow
    mailbox,           \* the messages of each integration's mailbox, in the upstream's order
    credentials,       \* Integration.credentials_encrypted of each integration
    pollers,           \* the GmailPoller objects alive, each under the name of the task
                       \* that constructed it: the last_check of each, and
                       \* the fetches it made for each integration
    _poller_instance,  \* the module global of gmail_poller.py: the name of an object, or "none"
    tasks,             \* where each task is, its locals, its call of _poll_integration and
                       \* its call of execute
    executors,         \* self.context of the WorkflowExecutor objects
    dispatched,        \* the (integration, message, workflow) that execute was called for
    requests           \* the number of requests served

server == <<wf_status, mailbox, credentials, pollers, _poller_instance, tasks,
            executors, dispatched, requests>>

\* the server process before its startup, every workflow a draft
ServerOff ==
    /\ wf_status = [w \in WorkflowIds |-> "draft"]
    /\ mailbox = [g \in IntegrationIds |-> <<>>]
    /\ credentials = [g \in IntegrationIds |-> encrypt_credentials([access_token |-> 0])]
    /\ pollers = <<>>
    /\ _poller_instance = "none"
    /\ tasks = [t \in TaskIds |-> IdleTask]
    /\ executors = [t \in TaskIds \cup {"module"} |-> {}]
    /\ dispatched = {}
    /\ requests = 0


(***************************************************************************)
(* Calls of the expression resolver (app/utils/expression.py), the rows    *)
(* the workflow routes write (app/routes/workflows.py), and the clock      *)
(* readings of _execute_node (app/engine/executor.py).                     *)
(***************************************************************************)
\* the number of pieces a template string is made of, and of segments of a path, at most
MaxPieces == 3

\* the longest wait, in milliseconds, of a flush or of a handler
MaxMillis == 3

\* the contexts of the calls: an empty one, and one with a number, a mapping and a list
\* that holds a list
Contexts ==
    {EmptyDict,
     VDict((<<"a">> :> VNum(1))
        @@ (<<"b">> :> VDict(<<"a">> :> VStr(<<"h", "i">>)))
        @@ (<<"l">> :> VList(<<VNum(7), VList(<<VNum(8), VNum(9)>>)>>)))}

\* the pieces of the template strings: tokens, text, a newline and loose braces
Pieces ==
    {<<"{", "{", "a", "}", "}">>, <<"{", "{", "b", "}", "}">>, <<"{", "{", " ", "l", ".", "1", " ", "}", "}">>, <<"{", "{", "z", "}", "}">>, <<"x">>, <<"\n">>, <<"{", "{">>, <<"}", "}">>}

\* the segments of the paths: keys, indexes in and out of range, signed and padded numbers
Segments == {<<"a">>, <<"b">>, <<"l">>, <<"0">>, <<"1">>, <<"2">>, <<"-", "1">>, <<"-", "3">>, <<" ", "1">>, <<"x">>}

\* the pieces of q one after the other, with sep between two of them
RECURSIVE Joined(_, _)
Joined(q, sep) ==
    IF q = <<>> THEN <<>>
    ELSE IF Len(q) = 1 THEN q[1]
    ELSE q[1] \o sep \o Joined(Tail(q), sep)

\* the strings of n pieces or fewer
Strings(n) == {Joined(q, <<>>) : q \in UNION {[1..k -> Pieces] : k \in 0..n}}

\* the paths of one to n segments
Paths(n) == {Joined(q, <<".">>) : q \in UNION {[1..k -> Segments] : k \in 1..n}}

\* the templates: strings, scalars, and mappings and lists that hold strings, nested
Templates ==
    {VStr(s) : s \in Strings(MaxPieces)}
    \cup {VNum(7), VNone}
    \cup UNION {{VDict(<<"k">> :> VStr(s)),
                 VList(<<VStr(s), VNum(7)>>),
                 VDict((<<"k">> :> VList(<<VDict(<<"j">> :> VStr(s))>>)) @@ (<<"n">> :> VNone))} :
                    s \in Strings(MaxPieces - 1)}

\* a call of a function of expression.py that has not returned
ExprCall(op, arg, ctx) ==
    [op |-> op, arg |-> arg, context |-> ctx, state |-> "called", result |-> VNone]

\* no call
NoExpr == [op |-> "none", arg |-> VNone, context |-> VNone, state |-> "off", result |-> VNone]

\* the node lists of a request body: WorkflowNodeSchema.id is the node's key
PayloadNodes ==
    {a \o s \o r : a \in {<<>>, <<NodeA>>},
                   s \in {<<>>, <<NodeS(s_summarize)>>},
                   r \in {<<>>, <<NodeR(TRUE)>>}}

\* the edge lists of a request body: MaxEdges edges or fewer between the keys A, S and R
\* and to X, the key of no node
PayloadEdges ==
    UNION {[1..n -> {WorkflowEdge(<<"A">>, <<"S">>), WorkflowEdge(<<"S">>, <<"R">>), WorkflowEdge(<<"A">>, <<"X">>)}] :
              n \in 0..MaxEdges}

\* no Workflow row
NoWorkflow == [exists |-> FALSE, nodes |-> <<>>, edges |-> <<>>]

\* _execute_node before it is called
NoTimer ==
    [pc |-> "off", now |-> 0, started_at |-> 0, start_time |-> 0, execution_time_ms |-> 0,
     completed_at |-> 0]

\* the node lists of the workflows _trigger_workflows selects from: no node, one
\* email_trigger node for g1, two of them after a node of another type, one for g2, a node
\* of another type with the same data, an integration_id that is no string, data that is
\* no dict and a trigger_config that is no dict
TriggerNodeLists ==
    {<<>>,
     <<ConfiguredNode(<<"n", "1">>, <<"A">>, s_email_trigger, VStr(<<"g", "1">>))>>,
     <<NodeR(TRUE), ConfiguredNode(<<"n", "1">>, <<"A">>, s_email_trigger, VStr(<<"g", "1">>)),
       ConfiguredNode(<<"n", "3">>, <<"B">>, s_email_trigger, VStr(<<"g", "1">>))>>,
     <<ConfiguredNode(<<"n", "1">>, <<"A">>, s_email_trigger, VStr(<<"g", "2">>))>>,
     <<ConfiguredNode(<<"n", "1">>, <<"A">>, s_response, VStr(<<"g", "1">>))>>,
     <<ConfiguredNode(<<"n", "1">>, <<"A">>, s_email_trigger, VNum(1))>>,
     <<WorkflowNode(<<"n", "1">>, <<"A">>, s_email_trigger, VNone)>>,
     <<WorkflowNode(<<"n", "1">>, <<"A">>, s_email_trigger, VDict(<<"t", "r", "i", "g", "g", "e", "r", "_", "c", "o", "n", "f", "i", "g">> :> VStr(<<"g", "1">>)))>>}

\* the Workflow rows of the table: two workflows, each of user u1 or u2
TriggerTables ==
    {<<[id |-> <<"w", "1">>, user_id |-> u, variables |-> EmptyDict, nodes |-> n, edges |-> <<>>],
       [id |-> <<"w", "2">>, user_id |-> v, variables |-> EmptyDict, nodes |-> m, edges |-> <<>>]>> :
        u \in {<<"u", "1">>, <<"u", "2">>}, v \in {<<"u", "1">>, <<"u", "2">>}, n \in TriggerNodeLists, m \in TriggerNodeLists}

\* no call of _trigger_workflows
NoSelection == [state |-> "off"]

VARIABLES
    expr,     \* the call of interpolate or resolve_expression, with its result once returned
    saved,   \* the Workflow row the routes wrote, with its WorkflowNode and WorkflowEdge rows
    timer,    \* the clock and what _execute_node has read from it
    selection \* the call of _trigger_workflows: its table, its arguments, what it selected and called

units == <<expr, saved, timer, selection>>

\* no call of the resolver, no row, no node being timed, no selection
UnitsOff ==
    /\ expr = NoExpr
    /\ saved = NoWorkflow
    /\ timer = NoTimer
    /\ selection = NoSelection
Init ==
    /\ ServerOff
    /\ UnitsOff
    /\ workflow \in Workflows
    /\ pc = "idle"
    /\ runs = <<>>
    /\ run = 0
    /\ node_runs = <<>>
    /\ context = EmptyDict
    /\ nodes_map = NodesMap(<<>>)
    /\ sorted_node_ids = <<>>
    /\ pos = 0
    /\ invoked = <<>>
    /\ raised = <<>>

\* execute, lines 29-39: the run is created and added, the first flush is awaited
Execute(input_payload, trigger_type) ==
    /\ pc = "idle"
    /\ runs = <<>>
    /\ runs' = Append(runs, NewRun(workflow, input_payload, trigger_type))
    /\ run' = Len(runs) + 1
    /\ pc' = "flush_run"
    /\ UNCHANGED <<workflow, node_runs, context, nodes_map, sorted_node_ids, pos, invoked, raised>>
    /\ UNCHANGED <<server, units>>

\* lines 39-53 with the three entries written into the dict self.context already is,
\* instead of a new dict being bound to it
FlushRunOk_KeepsContext ==
    /\ pc = "flush_run"
    /\ context' = VDict(InitialContext(workflow, runs[run].input_payload, runs[run].trigger_type).v
                        @@ context.v)
    /\ nodes_map' = NodesMap(workflow.nodes)
    /\ \E order \in SetOrders(DOMAIN NodesMap(workflow.nodes)) :
          sorted_node_ids' = _topological_sort(NodesMap(workflow.nodes), workflow.edges, order)
    /\ pos' = 1
    /\ pc' = "loop"
    /\ UNCHANGED <<workflow, runs, run, node_runs, invoked, raised>>
    /\ UNCHANGED <<server, units>>

\* lines 39-53: the flush returns; the context is built and the nodes are sorted
FlushRunOk ==
    /\ pc = "flush_run"
    /\ context' = InitialContext(workflow, runs[run].input_payload, runs[run].trigger_type)
    /\ nodes_map' = NodesMap(workflow.nodes)
    /\ \E order \in SetOrders(DOMAIN NodesMap(workflow.nodes)) :
          sorted_node_ids' = _topological_sort(NodesMap(workflow.nodes), workflow.edges, order)
    /\ pos' = 1
    /\ pc' = "loop"
    /\ UNCHANGED <<workflow, runs, run, node_runs, invoked, raised>>
    /\ UNCHANGED <<server, units>>

\* line 39: the flush raises, outside the try: the exception leaves execute
FlushRunRaises ==
    /\ pc = "flush_run"
    /\ raised' = x_DBAPIError
    /\ pc' = "raised"
    /\ UNCHANGED <<workflow, runs, run, node_runs, context, nodes_map, sorted_node_ids, pos, invoked>>
    /\ UNCHANGED <<server, units>>

\* lines 56-59: an id of the order that is no key of nodes_map is passed over
SkipNode ==
    /\ pc = "loop"
    /\ pos <= Len(sorted_node_ids)
    /\ sorted_node_ids[pos] \notin DOMAIN nodes_map
    /\ pos' = pos + 1
    /\ UNCHANGED <<workflow, pc, runs, run, node_runs, context, nodes_map, sorted_node_ids, invoked, raised>>
    /\ UNCHANGED <<server, units>>

\* lines 56-61 and 80-87: the next node's NodeRun is created and added, its flush awaited
StartNode ==
    /\ pc = "loop"
    /\ pos <= Len(sorted_node_ids)
    /\ sorted_node_ids[pos] \in DOMAIN nodes_map
    /\ node_runs' = Append(node_runs, NewNodeRun(run, nodes_map[sorted_node_ids[pos]]))
    /\ pc' = "flush_node_run"
    /\ UNCHANGED <<workflow, runs, run, context, nodes_map, sorted_node_ids, pos, invoked, raised>>
    /\ UNCHANGED <<server, units>>

\* lines 56 and 67-69: the loop is left, by break or with the order exhausted
EndLoop ==
    /\ pc = "break" \/ (pc = "loop" /\ pos > Len(sorted_node_ids))
    /\ runs' = [runs EXCEPT ![run] = AfterLoop(@, context)]
    /\ pc' = "finalize"
    /\ UNCHANGED <<workflow, run, node_runs, context, nodes_map, sorted_node_ids, pos, invoked, raised>>
    /\ UNCHANGED <<server, units>>

\* line 87: the flush of the new NodeRun returns
FlushNodeRunOk ==
    /\ pc = "flush_node_run"
    /\ pc' = "node"
    /\ UNCHANGED <<workflow, runs, run, node_runs, context, nodes_map, sorted_node_ids, pos, invoked, raised>>
    /\ UNCHANGED <<server, units>>

\* line 87 with the exception of the flush swallowed: the loop goes on to the next node
\* while the NodeRun stays running
FlushNodeRunRaises_Swallowed ==
    /\ pc = "flush_node_run"
    /\ pc' = "loop"
    /\ pos' = pos + 1
    /\ UNCHANGED <<workflow, runs, run, node_runs, context, nodes_map, sorted_node_ids, invoked, raised>>
    /\ UNCHANGED <<server, units>>

\* lines 87 and 71-73: the flush of the new NodeRun raises and execute's boundary catches it
FlushNodeRunRaises ==
    /\ pc = "flush_node_run"
    /\ runs' = [runs EXCEPT ![run] = OuterExcept(@, x_DBAPIError)]
    /\ pc' = "finalize"
    /\ UNCHANGED <<workflow, run, node_runs, context, nodes_map, sorted_node_ids, pos, invoked, raised>>
    /\ UNCHANGED <<server, units>>

\* lines 91-98: the node's data is interpolated and its handler looked up; an unknown type
\* fails the NodeRun (lines 110-116), a known one has its execute called
ResolveNode ==
    /\ pc = "node"
    /\ LET node == nodes_map[sorted_node_ids[pos]]
           resolved_data == interpolate(PyOr(node.data, EmptyDict), context)
           handler == get_node_handler(node.type)
           nr == [node_runs[Len(node_runs)] EXCEPT !.input_data = resolved_data]
       IN  IF handler.ok
           THEN /\ node_runs' = [node_runs EXCEPT ![Len(node_runs)] = nr]
                /\ invoked' = Append(invoked, [key |-> sorted_node_ids[pos], outcome |-> "called"])
                /\ pc' = "handler"
           ELSE /\ node_runs' = [node_runs EXCEPT ![Len(node_runs)] = NodeTimed(NodeFailed(nr, handler.exc))]
                /\ invoked' = invoked
                /\ pc' = "flush_node_done"
    /\ UNCHANGED <<workflow, runs, run, context, nodes_map, sorted_node_ids, pos, raised>>
    /\ UNCHANGED <<server, units>>

\* lines 98-116 without the except of lines 110-112 and 71-73: the exception of
\* handler.execute leaves execute
HandlerDone_Rethrows ==
    /\ pc = "handler"
    /\ \E key \in ApiKeys, upstream \in Upstreams :
          LET node == nodes_map[sorted_node_ids[pos]]
              nr == node_runs[Len(node_runs)]
              handler == get_node_handler(node.type).result.v
              out == HandlerExecute(handler, nr.input_data, context, key, upstream)
          IN  IF out.ok
              THEN /\ context' = ContextAfter(ContextAfterExecute(handler, context), node, out.result)
                   /\ node_runs' = [node_runs EXCEPT ![Len(node_runs)] =
                                        NodeTimed(NodeSucceeded(nr, node, out.result))]
                   /\ invoked' = [invoked EXCEPT ![Len(invoked)].outcome = "returned"]
                   /\ pc' = "flush_node_done"
                   /\ raised' = raised
              ELSE /\ context' = ContextAfterExecute(handler, context)
                   /\ node_runs' = node_runs
                   /\ invoked' = [invoked EXCEPT ![Len(invoked)].outcome = "raised"]
                   /\ pc' = "raised"
                   /\ raised' = out.exc
    /\ UNCHANGED <<workflow, runs, run, nodes_map, sorted_node_ids, pos>>
    /\ UNCHANGED <<server, units>>

\* lines 98-116: handler.execute returns or raises
HandlerDone ==
    /\ pc = "handler"
    /\ \E key \in ApiKeys, upstream \in Upstreams :
          LET node == nodes_map[sorted_node_ids[pos]]
              nr == node_runs[Len(node_runs)]
              handler == get_node_handler(node.type).result.v
              out == HandlerExecute(handler, nr.input_data, context, key, upstream)
          IN  IF out.ok
              THEN /\ context' = ContextAfter(ContextAfterExecute(handler, context), node, out.result)
                   /\ node_runs' = [node_runs EXCEPT ![Len(node_runs)] =
                                        NodeTimed(NodeSucceeded(nr, node, out.result))]
                   /\ invoked' = [invoked EXCEPT ![Len(invoked)].outcome = "returned"]
              ELSE /\ context' = ContextAfterExecute(handler, context)
                   /\ node_runs' = [node_runs EXCEPT ![Len(node_runs)] =
                                        NodeTimed(NodeFailed(nr, out.exc))]
                   /\ invoked' = [invoked EXCEPT ![Len(invoked)].outcome = "raised"]
    /\ pc' = "flush_node_done"
    /\ UNCHANGED <<workflow, runs, run, nodes_map, sorted_node_ids, pos, raised>>
    /\ UNCHANGED <<server, units>>

\* lines 117-118 and 62-65, without the break: the loop goes on after a failed NodeRun
FlushNodeDoneOk_NoBreak ==
    /\ pc = "flush_node_done"
    /\ runs' = [runs EXCEPT ![run] = AfterNode(@, sorted_node_ids[pos], node_runs[Len(node_runs)])]
    /\ pc' = "loop"
    /\ pos' = pos + 1
    /\ UNCHANGED <<workflow, run, node_runs, context, nodes_map, sorted_node_ids, invoked, raised>>
    /\ UNCHANGED <<server, units>>

\* lines 117-118 and 62-65: the NodeRun is flushed and returned; a failed one fails the run
\* and breaks the loop
FlushNodeDoneOk ==
    /\ pc = "flush_node_done"
    /\ runs' = [runs EXCEPT ![run] = AfterNode(@, sorted_node_ids[pos], node_runs[Len(node_runs)])]
    /\ IF node_runs[Len(node_runs)].status = "failed"
       THEN pc' = "break" /\ pos' = pos
       ELSE pc' = "loop" /\ pos' = pos + 1
    /\ UNCHANGED <<workflow, run, node_runs, context, nodes_map, sorted_node_ids, invoked, raised>>
    /\ UNCHANGED <<server, units>>

\* lines 117 and 71-73: the last flush of _execute_node raises and execute's boundary catches it
FlushNodeDoneRaises ==
    /\ pc = "flush_node_done"
    /\ runs' = [runs EXCEPT ![run] = OuterExcept(@, x_DBAPIError)]
    /\ pc' = "finalize"
    /\ UNCHANGED <<workflow, run, node_runs, context, nodes_map, sorted_node_ids, pos, invoked, raised>>
    /\ UNCHANGED <<server, units>>

\* lines 75-77: completed_at is stamped, the flush returns and execute returns the run
FinalizeOk ==
    /\ pc = "finalize"
    /\ runs' = [runs EXCEPT ![run].completed_at = TRUE]
    /\ pc' = "returned"
    /\ UNCHANGED <<workflow, run, node_runs, context, nodes_map, sorted_node_ids, pos, invoked, raised>>
    /\ UNCHANGED <<server, units>>

\* lines 75-76: completed_at is stamped and the flush raises: the exception leaves execute
FinalizeRaises ==
    /\ pc = "finalize"
    /\ runs' = [runs EXCEPT ![run].completed_at = TRUE]
    /\ raised' = x_DBAPIError
    /\ pc' = "raised"
    /\ UNCHANGED <<workflow, run, node_runs, context, nodes_map, sorted_node_ids, pos, invoked>>
    /\ UNCHANGED <<server, units>>

Next ==
    \/ \E p \in Payloads : Execute(p, s_manual)
    \/ FlushRunOk
    \/ FlushRunRaises
    \/ SkipNode
    \/ StartNode
    \/ EndLoop
    \/ FlushNodeRunOk
    \/ FlushNodeRunRaises
    \/ ResolveNode
    \/ HandlerDone
    \/ FlushNodeDoneOk
    \/ FlushNodeDoneRaises
    \/ FinalizeOk
    \/ FinalizeRaises

Spec == Init /\ [][Next]_vars

(***************************************************************************)
(* One WorkflowExecutor executing runs one after another, as                *)
(* _trigger_workflows does with the executor of gmail_poller.py:126.        *)
(***************************************************************************)
\* the runs one executor is given
MaxRuns == 2

\* the workflows the executor is given: the trigger and the response, the trigger and a
\* summary of it, and a node of a type the registry lacks
ReuseWorkflows ==
    {[id |-> <<"w", "1">>, variables |-> EmptyDict, nodes |-> <<NodeA, NodeR(TRUE)>>,
      edges |-> <<WorkflowEdge(<<"A">>, <<"R">>)>>],
     [id |-> <<"w", "2">>, variables |-> EmptyDict, nodes |-> <<NodeA, NodeS(s_summarize)>>,
      edges |-> <<WorkflowEdge(<<"A">>, <<"S">>)>>],
     [id |-> <<"w", "3">>, variables |-> EmptyDict, nodes |-> <<NodeS(s_http_request)>>,
      edges |-> <<>>]}

\* WorkflowExecutor(db) is constructed (executor.py:25-27): the context is the empty dict
ReuseInit ==
    /\ ServerOff
    /\ UnitsOff
    /\ workflow \in ReuseWorkflows
    /\ pc = "idle"
    /\ runs = <<>>
    /\ run = 0
    /\ node_runs = <<>>
    /\ context = EmptyDict
    /\ nodes_map = NodesMap(<<>>)
    /\ sorted_node_ids = <<>>
    /\ pos = 0
    /\ invoked = <<>>
    /\ raised = <<>>

\* gmail_poller.py:128-150 and executor.py:29-39: execute has returned, or raised into the
\* except of line 149, and is called again on the same object for the next pair of a
\* message and a workflow
ExecuteAgain(wf, input_payload, trigger_type) ==
    /\ pc \in {"returned", "raised"}
    /\ Len(runs) < MaxRuns
    /\ workflow' = wf
    /\ runs' = Append(runs, NewRun(wf, input_payload, trigger_type))
    /\ run' = Len(runs) + 1
    /\ pc' = "flush_run"
    /\ raised' = <<>>
    /\ UNCHANGED <<node_runs, context, nodes_map, sorted_node_ids, pos, invoked>>
    /\ UNCHANGED <<server, units>>

\* the runs of one executor
ReuseNext ==
    \/ \E p \in Payloads : Execute(p, s_manual)
    \/ \E wf \in ReuseWorkflows, p \in Payloads : ExecuteAgain(wf, p, s_manual)
    \/ FlushRunOk
    \/ FlushRunRaises
    \/ StartNode
    \/ EndLoop
    \/ FlushNodeRunOk
    \/ FlushNodeRunRaises
    \/ ResolveNode
    \/ HandlerDone
    \/ FlushNodeDoneOk
    \/ FlushNodeDoneRaises
    \/ FinalizeOk
    \/ FinalizeRaises

Reuse == ReuseInit /\ [][ReuseNext]_vars

(***************************************************************************)
(* app/services/gmail_poller.py, app/services/gmail_service.py and the     *)
(* routes that start runs and polls.  A step of a task runs from one await *)
(* to the next; the upstream's answer to a fetch is taken when the fetch   *)
(* is made, and mail may arrive before the code that follows it runs.      *)
(***************************************************************************)
\* the number of messages that have arrived: the time on the upstream's clock
Clock == Len(mailbox[<<"g", "1">>]) + Len(mailbox[<<"g", "2">>]) + Len(mailbox[<<"g", "3">>])

\* the first n elements of a sequence
Take(seq, n) == SubSeq(seq, 1, IF Len(seq) < n THEN Len(seq) ELSE n)

\* GmailService.get_unread_messages: the messages of the mailbox, max_results at most
get_unread_messages(box, max_results) == Take(box, max_results)

\* GmailService.get_messages_since: the messages received after since_datetime
get_messages_since(box, since_datetime, max_results) ==
    Take(SelectSeq(box, LAMBDA m : m.received_at > since_datetime), max_results)

\* GmailPoller.__init__ (lines 21-25): last_check = {}, is_running = False; fetched holds
\* the integrations that a fetch of this object has returned for
GmailPoller == [last_check |-> [g \in {} |-> 0], is_running |-> FALSE, fetched |-> {}]

\* Credentials.refresh (gmail_service.py:44-46): an access token that is not the old one
Refresh(access_token) == 1 - access_token

\* the rows of `select(Integration).where(type == "gmail", status == "active")`
ActiveGmail ==
    LET rows == SelectSeq(Integrations, LAMBDA i : i.type = <<"g", "m", "a", "i", "l">> /\ i.status = <<"a", "c", "t", "i", "v", "e">>)
    IN  [k \in 1..Len(rows) |-> rows[k].id]

\* lines 105-120: some email_trigger node of the workflow is configured for the integration
MatchesIntegration(nodes, integration_id) ==
    \E k \in 1..Len(nodes) :
        /\ nodes[k].type = s_email_trigger
        /\ LET node_data == IF IsDict(nodes[k].data) THEN nodes[k].data ELSE EmptyDict
               given == DictGet(node_data, <<"t", "r", "i", "g", "g", "e", "r", "_", "c", "o", "n", "f", "i", "g">>, EmptyDict)
               trigger_config == IF IsDict(given) THEN given ELSE EmptyDict
           IN  DictGet(trigger_config, <<"i", "n", "t", "e", "g", "r", "a", "t", "i", "o", "n", "_", "i", "d">>, VNone) = VStr(integration_id)

\* the integrations that some workflow has an email_trigger node for
Watched == {g \in IntegrationIds : \E i \in 1..Len(ServedWorkflows) :
                                      MatchesIntegration(ServedWorkflows[i].nodes, g)}

\* the watched integrations that _poll_all_gmail_integrations selects
Polled == {g \in Watched : \E k \in 1..Len(ActiveGmail) : ActiveGmail[k] = g}

\* lines 96-120 without the break of line 120: the workflow is appended for each of its
\* nodes that is configured for the integration
RECURSIVE GmailWorkflowsOf_NoBreak(_, _, _)
GmailWorkflowsOf_NoBreak(workflows, integration, status) ==
    IF workflows = <<>> THEN <<>>
    ELSE LET w == Head(workflows)
             hits == IF w.user_id = integration.user_id /\ status[w.id] = "published"
                     THEN Cardinality({k \in 1..Len(w.nodes) :
                                          MatchesIntegration(<<w.nodes[k]>>, integration.id)})
                     ELSE 0
         IN  [k \in 1..hits |-> w.id] \o GmailWorkflowsOf_NoBreak(Tail(workflows), integration, status)

\* lines 96-120 over the Workflow table workflows: the rows the select returns, those of
\* the integration's user that are published, and of them the ones configured for the
\* integration, each appended once (the break of line 120)
GmailWorkflowsOf(workflows, integration, status) ==
    LET rows == SelectSeq(workflows,
                          LAMBDA w : w.user_id = integration.user_id /\ status[w.id] = "published")
        matching == SelectSeq(rows, LAMBDA w : MatchesIntegration(w.nodes, integration.id))
    IN  [k \in 1..Len(matching) |-> matching[k].id]

\* lines 96-120 over the workflows the server holds
GmailWorkflows(integration, status) == GmailWorkflowsOf(ServedWorkflows, integration, status)

\* lines 131-147: the payload of a message
trigger_payload(integration_id, message) ==
    [trigger_type |-> "gmail", integration_id |-> integration_id, body |-> message]

\* the WorkflowExecutor a task constructs, were it one object shared by the module
ExecutorOf_Shared(t) == "module"

\* WorkflowExecutor(db) at gmail_poller.py:126, webhooks.py:29, workflows.py:213: a new
\* object for the task
ExecutorOf(t) == t

\* no other task is between two awaits: the fetch and the stamp of _poll_integration are
\* one stretch of code without an await
Scheduled(t) == \A u \in TaskIds \ {t} : tasks[u].pc # "fetched"

\* the for loop of lines 55-57: the next integration of the tick, or the sleep of line 38
NextIntegration(task) ==
    IF task.queue = <<>> THEN [task EXCEPT !.pc = "sleep", !.integration = <<>>]
    ELSE [task EXCEPT !.pc = "poll", !.integration = Head(task.queue), !.queue = Tail(task.queue)]

\* an exception leaves _poll_integration and the tick ends with it
AfterPollException_Abort(task) ==
    IF task.kind = "poller"
    THEN [task EXCEPT !.pc = "sleep", !.integration = <<>>, !.queue = <<>>,
                      !.polled = Append(@, [integration |-> task.integration, outcome |-> "raised"])]
    ELSE [task EXCEPT !.pc = "done", !.http = 400]

\* an exception leaves _poll_integration (lines 90-92): the poller's loop catches it and
\* goes on (lines 58-59), poll_gmail_now answers 400 (gmail.py:154-155)
AfterPollException(task) ==
    IF task.kind = "poller"
    THEN NextIntegration([task EXCEPT !.polled = Append(@, [integration |-> task.integration,
                                                            outcome |-> "raised"])])
    ELSE [task EXCEPT !.pc = "done", !.http = 400]

\* _poll_integration returns: the poller's loop goes on, poll_gmail_now answers 200
AfterPoll(task) ==
    IF task.kind = "poller"
    THEN NextIntegration([task EXCEPT !.polled = Append(@, [integration |-> task.integration,
                                                            outcome |-> "returned"])])
    ELSE [task EXCEPT !.pc = "done", !.http = 200]

\* the two loops nested the other way round: for workflow, for message
NextPair_WorkflowMajor(task) ==
    IF task.poll.mi < Len(task.poll.messages)
    THEN [task EXCEPT !.pc = "dispatch", !.poll.mi = @ + 1]
    ELSE IF task.poll.wi < Len(task.poll.workflows)
    THEN [task EXCEPT !.pc = "dispatch", !.poll.wi = @ + 1, !.poll.mi = 1]
    ELSE [task EXCEPT !.pc = "creds"]

\* the for loops of lines 128-129: the next pair of a message and a workflow, or the end
\* of _trigger_workflows
NextPair(task) ==
    IF task.poll.wi < Len(task.poll.workflows)
    THEN [task EXCEPT !.pc = "dispatch", !.poll.wi = @ + 1]
    ELSE IF task.poll.mi < Len(task.poll.messages)
    THEN [task EXCEPT !.pc = "dispatch", !.poll.mi = @ + 1, !.poll.wi = 1]
    ELSE [task EXCEPT !.pc = "creds"]

\* execute is left, by return or by an exception: _trigger_workflows goes on either way
\* (lines 150-153), a route answers
AfterExecute(task, http) ==
    IF task.kind \in {"poller", "poll_now"} THEN NextPair(task)
    ELSE [task EXCEPT !.pc = "done", !.http = http]

\* a name for the call of execute a task is about to make: the task, its tick or its
\* request, and in a poll the integration and the place in the two loops
CallId(t, task) ==
    IF task.kind = "poller" THEN <<t, task.tick, task.integration, task.poll.mi, task.poll.wi>>
    ELSE IF task.kind = "poll_now" THEN <<t, requests, task.integration, task.poll.mi, task.poll.wi>>
    ELSE <<t, requests, <<>>, 0, 0>>

\* WorkflowRun(...) of executor.py:31-37 for the call of task t that id names
NewCall(t, id, workflow_id, triggered, trigger_type, payload) ==
    [id |-> id, executor |-> ExecutorOf(t), workflow |-> workflow_id,
     triggered |-> triggered, trigger_type |-> trigger_type, payload |-> payload,
     nodes |-> 0, saw |-> {}, state |-> "running"]

\* start_gmail_poller (lines 159-164), called by lifespan (main.py:16-20), and the first
\* lines of GmailPoller.start
start_gmail_poller ==
    /\ _poller_instance = "none"
    /\ tasks["loop"].kind = "none"
    /\ Scheduled("loop")
    /\ pollers' = ("loop" :> [GmailPoller EXCEPT !.is_running = TRUE]) @@ pollers
    /\ _poller_instance' = "loop"
    /\ tasks' = [tasks EXCEPT !["loop"] = [IdleTask EXCEPT !.kind = "poller", !.pc = "tick",
                                                            !.instance = "loop",
                                                            !.tick = 1]]
    /\ UNCHANGED <<wf_status, mailbox, credentials, executors, dispatched, requests>>
    /\ UNCHANGED <<vars, units>>

\* _poll_all_gmail_integrations, lines 47-55: the select returns the active gmail integrations
PollAll(t) ==
    /\ tasks[t].pc = "tick"
    /\ Scheduled(t)
    /\ tasks' = [tasks EXCEPT ![t] = NextIntegration([@ EXCEPT !.queue = ActiveGmail,
                                                               !.polled = <<>>,
                                                               !.selected = TRUE])]
    /\ UNCHANGED <<wf_status, mailbox, credentials, pollers, _poller_instance,
                   executors, dispatched, requests>>
    /\ UNCHANGED <<vars, units>>

\* line 47 raises: start catches (lines 35-36) and sleeps
PollAllRaises(t) ==
    /\ tasks[t].pc = "tick"
    /\ Scheduled(t)
    /\ tasks' = [tasks EXCEPT ![t] = [@ EXCEPT !.pc = "sleep", !.queue = <<>>, !.polled = <<>>,
                                               !.selected = FALSE]]
    /\ UNCHANGED <<wf_status, mailbox, credentials, pollers, _poller_instance,
                   executors, dispatched, requests>>
    /\ UNCHANGED <<vars, units>>

\* lines 64-78 with last_check stamped before the fetch is awaited: a fetch that raises
\* has moved the window
Fetch_StampsFirst(t, Outcomes) ==
    /\ tasks[t].pc = "poll"
    /\ Scheduled(t)
    /\ \E outcome \in Outcomes :
          LET refreshed == outcome = "refreshed"
              ok == outcome # "raised"
              task == tasks[t]
              g == task.integration
              creds == decrypt_credentials(credentials[g])
              last_check == pollers[task.instance].last_check
              since == g \in DOMAIN last_check
              messages == IF since THEN get_messages_since(mailbox[g], last_check[g], SinceMax)
                          ELSE get_unread_messages(mailbox[g], UnreadMax)
              poll == [instance |-> task.instance, integration |-> g, tick |-> task.tick,
                       path |-> IF since THEN "since" ELSE "unread",
                       max_results |-> IF since THEN SinceMax ELSE UnreadMax,
                       earlier |-> g \in pollers[task.instance].fetched,
                       credentials |-> creds,
                       token |-> IF refreshed THEN Refresh(creds.access_token)
                                 ELSE creds.access_token,
                       messages |-> IF ok THEN messages ELSE <<>>,
                       matched |-> FALSE, workflows |-> <<>>, triggered |-> <<>>,
                       mi |-> 0, wi |-> 0, calls |-> <<>>,
                       persisted |-> FALSE, state |-> IF ok THEN "running" ELSE "raised"]
          IN  /\ pollers' = [pollers EXCEPT ![task.instance].fetched =
                                                IF ok THEN @ \cup {g} ELSE @,
                                            ![task.instance].last_check = (g :> Clock) @@ @]
              /\ tasks' = [tasks EXCEPT ![t] =
                              IF ok THEN [task EXCEPT !.pc = "fetched", !.poll = poll]
                              ELSE AfterPollException([task EXCEPT !.poll = poll])]
    /\ UNCHANGED <<wf_status, mailbox, credentials, _poller_instance, executors,
                   dispatched, requests>>
    /\ UNCHANGED <<vars, units>>

\* _poll_integration, lines 64-76: the credentials are unsealed, the client is constructed
\* and the messages are fetched; the access token may be refreshed on the way, and the
\* refresh or the fetch may raise
Fetch(t, Outcomes) ==
    /\ tasks[t].pc = "poll"
    /\ Scheduled(t)
    /\ \E outcome \in Outcomes :
          LET refreshed == outcome = "refreshed"
              ok == outcome # "raised"
              task == tasks[t]
              g == task.integration
              creds == decrypt_credentials(credentials[g])
              last_check == pollers[task.instance].last_check
              since == g \in DOMAIN last_check
              messages == IF since THEN get_messages_since(mailbox[g], last_check[g], SinceMax)
                          ELSE get_unread_messages(mailbox[g], UnreadMax)
              poll == [instance |-> task.instance, integration |-> g, tick |-> task.tick,
                       path |-> IF since THEN "since" ELSE "unread",
                       max_results |-> IF since THEN SinceMax ELSE UnreadMax,
                       earlier |-> g \in pollers[task.instance].fetched,
                       credentials |-> creds,
                       token |-> IF refreshed THEN Refresh(creds.access_token)
                                 ELSE creds.access_token,
                       messages |-> IF ok THEN messages ELSE <<>>,
                       matched |-> FALSE, workflows |-> <<>>, triggered |-> <<>>,
                       mi |-> 0, wi |-> 0, calls |-> <<>>,
                       persisted |-> FALSE, state |-> IF ok THEN "running" ELSE "raised"]
          IN  /\ pollers' = [pollers EXCEPT ![task.instance].fetched =
                                                IF ok THEN @ \cup {g} ELSE @]
              /\ tasks' = [tasks EXCEPT ![t] =
                              IF ok THEN [task EXCEPT !.pc = "fetched", !.poll = poll]
                              ELSE AfterPollException([task EXCEPT !.poll = poll])]
    /\ UNCHANGED <<wf_status, mailbox, credentials, _poller_instance, executors,
                   dispatched, requests>>
    /\ UNCHANGED <<vars, units>>

\* lines 78-82 with last_check left as it was
Stamp_Forgotten(t) ==
    /\ tasks[t].pc = "fetched"
    /\ tasks' = [tasks EXCEPT ![t].pc = IF tasks[t].poll.messages # <<>> THEN "match"
                                        ELSE "creds"]
    /\ UNCHANGED <<wf_status, mailbox, credentials, pollers, _poller_instance,
                   executors, dispatched, requests>>
    /\ UNCHANGED <<vars, units>>

\* lines 78-82: last_check is stamped with utcnow(); with messages _trigger_workflows is
\* called and awaits its select
Stamp(t) ==
    /\ tasks[t].pc = "fetched"
    /\ pollers' = [pollers EXCEPT ![tasks[t].instance].last_check =
                                      (tasks[t].integration :> Clock) @@ @]
    /\ tasks' = [tasks EXCEPT ![t].pc = IF tasks[t].poll.messages # <<>> THEN "match"
                                        ELSE "creds"]
    /\ UNCHANGED <<wf_status, mailbox, credentials, _poller_instance, executors,
                   dispatched, requests>>
    /\ UNCHANGED <<vars, units>>

\* _trigger_workflows, lines 96-126: the select returns, the workflows configured for the
\* integration are kept, and with one or more an executor is constructed
Match(t) ==
    /\ tasks[t].pc = "match"
    /\ Scheduled(t)
    /\ LET task == tasks[t]
           gmail_workflows == GmailWorkflows(IntegrationRow(task.integration), wf_status)
           found == [task EXCEPT !.poll.workflows = gmail_workflows,
                                 !.poll.triggered = [k \in 1..Len(gmail_workflows) |->
                                                        wf_status[gmail_workflows[k]]],
                                 !.poll.matched = TRUE]
       IN  IF gmail_workflows = <<>>
           THEN /\ tasks' = [tasks EXCEPT ![t] = [found EXCEPT !.pc = "creds"]]
                /\ executors' = executors
           ELSE /\ tasks' = [tasks EXCEPT ![t] = [found EXCEPT !.pc = "dispatch",
                                                               !.poll.mi = 1, !.poll.wi = 1]]
                /\ executors' = [executors EXCEPT ![ExecutorOf(t)] = {}]
    /\ UNCHANGED <<wf_status, mailbox, credentials, pollers, _poller_instance,
                   dispatched, requests>>
    /\ UNCHANGED <<vars, units>>

\* line 96 raises and the stamp of line 78 is undone with it, as if last_check were set
\* after the processing
MatchRaises_Unstamped(t) ==
    /\ tasks[t].pc = "match"
    /\ Scheduled(t)
    /\ tasks' = [tasks EXCEPT ![t] = AfterPollException([@ EXCEPT !.poll.state = "raised"])]
    /\ pollers' = [pollers EXCEPT ![tasks[t].instance].last_check =
                      [g \in (DOMAIN @) \ {tasks[t].integration} |-> @[g]]]
    /\ UNCHANGED <<wf_status, mailbox, credentials, _poller_instance,
                   executors, dispatched, requests>>
    /\ UNCHANGED <<vars, units>>

\* line 96 raises: the exception leaves _trigger_workflows and _poll_integration
MatchRaises(t) ==
    /\ tasks[t].pc = "match"
    /\ Scheduled(t)
    /\ tasks' = [tasks EXCEPT ![t] = AfterPollException([@ EXCEPT !.poll.state = "raised"])]
    /\ UNCHANGED <<wf_status, mailbox, credentials, pollers, _poller_instance,
                   executors, dispatched, requests>>
    /\ UNCHANGED <<vars, units>>

\* lines 128-150 and executor.py:31-39: the payload of the next pair is built and execute
\* is called with it; execute creates the run and awaits its flush
Dispatch(t) ==
    /\ tasks[t].pc = "dispatch"
    /\ Scheduled(t)
    /\ LET task == tasks[t]
           poll == task.poll
           message == poll.messages[poll.mi]
           workflow_id == poll.workflows[poll.wi]
       IN  /\ tasks' = [tasks EXCEPT ![t].pc = "exec_flush",
                                     ![t].call = NewCall(t, CallId(t, task), workflow_id,
                                                         poll.triggered[poll.wi], "gmail",
                                                         trigger_payload(task.integration, message))]
           /\ dispatched' = dispatched \cup {<<task.integration, message.message_id, workflow_id>>}
    /\ UNCHANGED <<wf_status, mailbox, credentials, pollers, _poller_instance,
                   executors, requests>>
    /\ UNCHANGED <<vars, units>>

\* the call of execute that a task is in has ended: _trigger_workflows keeps it in the
\* order of its calls
CallEnded(task, state) ==
    LET ended == [task.call EXCEPT !.state = state]
    IN  IF task.kind \in {"poller", "poll_now"}
        THEN [task EXCEPT !.call = NoCall, !.poll.calls = Append(@, ended)]
        ELSE [task EXCEPT !.call = ended]

\* executor.py:39-46: the flush of the run returns and self.context is built for the run
ExecFlushOk(t) ==
    /\ tasks[t].pc = "exec_flush"
    /\ Scheduled(t)
    /\ executors' = [executors EXCEPT ![tasks[t].call.executor] = {<<tasks[t].call.id, "trigger">>}]
    /\ tasks' = [tasks EXCEPT ![t].pc = "exec_node"]
    /\ UNCHANGED <<wf_status, mailbox, credentials, pollers, _poller_instance,
                   dispatched, requests>>
    /\ UNCHANGED <<vars, units>>

\* executor.py:39: the flush of the run raises and the exception leaves execute
ExecFlushRaises(t) ==
    /\ tasks[t].pc = "exec_flush"
    /\ Scheduled(t)
    /\ tasks' = [tasks EXCEPT ![t] = AfterExecute(CallEnded(@, "raised"), 500)]
    /\ executors' = IF tasks'[t].pc = "creds"
                    THEN [executors EXCEPT ![tasks[t].call.executor] = {}]
                    ELSE executors
    /\ UNCHANGED <<wf_status, mailbox, credentials, pollers, _poller_instance,
                   dispatched, requests>>
    /\ UNCHANGED <<vars, units>>

\* executor.py:91-117: a node of the run: its data is interpolated against self.context,
\* and its output is stored in self.context
ExecNode(t) ==
    /\ tasks[t].pc = "exec_node"
    /\ tasks[t].call.nodes < Len(WorkflowRow(tasks[t].call.workflow).nodes)
    /\ Scheduled(t)
    /\ LET call == tasks[t].call
       IN  /\ tasks' = [tasks EXCEPT ![t].call.saw = @ \cup {entry[1] : entry \in executors[call.executor]},
                                     ![t].call.nodes = @ + 1]
           /\ executors' = [executors EXCEPT ![call.executor] = @ \cup {<<call.id, "node">>}]
    /\ UNCHANGED <<wf_status, mailbox, credentials, pollers, _poller_instance,
                   dispatched, requests>>
    /\ UNCHANGED <<vars, units>>

\* executor.py:67-77: the loop is over, the run is flushed and returned; the executor of
\* _trigger_workflows is dropped when its loops are over
ExecReturn(t) ==
    /\ tasks[t].pc = "exec_node"
    /\ tasks[t].call.nodes = Len(WorkflowRow(tasks[t].call.workflow).nodes)
    /\ Scheduled(t)
    /\ tasks' = [tasks EXCEPT ![t] = AfterExecute(CallEnded(@, "returned"), 200)]
    /\ executors' = IF tasks'[t].pc = "creds"
                    THEN [executors EXCEPT ![tasks[t].call.executor] = {}]
                    ELSE executors
    /\ UNCHANGED <<wf_status, mailbox, credentials, pollers, _poller_instance,
                   dispatched, requests>>
    /\ UNCHANGED <<vars, units>>

\* lines 84-88 with the credentials sealed and written whether or not the token changed
FinishPoll_Always(t) ==
    /\ tasks[t].pc = "creds"
    /\ Scheduled(t)
    /\ LET task == tasks[t]
       IN  /\ credentials' = [credentials EXCEPT ![task.integration] =
                                  encrypt_credentials([access_token |-> task.poll.token])]
           /\ tasks' = [tasks EXCEPT ![t] = AfterPoll([task EXCEPT !.poll.state = "returned",
                                                                   !.poll.persisted = TRUE])]
    /\ UNCHANGED <<wf_status, mailbox, pollers, _poller_instance, executors,
                   dispatched, requests>>
    /\ UNCHANGED <<vars, units>>

\* lines 84-88: when the access token changed the credentials are sealed again, assigned
\* and flushed; _poll_integration returns
FinishPoll(t) ==
    /\ tasks[t].pc = "creds"
    /\ Scheduled(t)
    /\ LET task == tasks[t]
           changed == task.poll.token # task.poll.credentials.access_token
       IN  /\ credentials' = IF changed
                             THEN [credentials EXCEPT ![task.integration] =
                                      encrypt_credentials([access_token |-> task.poll.token])]
                             ELSE credentials
           /\ tasks' = [tasks EXCEPT ![t] = AfterPoll([task EXCEPT !.poll.state = "returned",
                                                                   !.poll.persisted = changed])]
    /\ UNCHANGED <<wf_status, mailbox, pollers, _poller_instance, executors,
                   dispatched, requests>>
    /\ UNCHANGED <<vars, units>>

\* line 88 raises: the row is not written and the exception leaves _poll_integration
FinishPollRaises(t) ==
    /\ tasks[t].pc = "creds"
    /\ tasks[t].poll.token # tasks[t].poll.credentials.access_token
    /\ Scheduled(t)
    /\ tasks' = [tasks EXCEPT ![t] = AfterPollException([@ EXCEPT !.poll.state = "raised"])]
    /\ UNCHANGED <<wf_status, mailbox, credentials, pollers, _poller_instance,
                   executors, dispatched, requests>>
    /\ UNCHANGED <<vars, units>>

\* lines 38 and 32 without the test of is_running: the loop is `while True`
Sleep_Unheeded(t) ==
    /\ tasks[t].pc = "sleep"
    /\ tasks[t].tick < MaxTicks
    /\ Scheduled(t)
    /\ tasks' = [tasks EXCEPT ![t] = [IdleTask EXCEPT !.kind = "poller", !.pc = "tick",
                                                      !.instance = tasks[t].instance,
                                                      !.tick = tasks[t].tick + 1]]
    /\ UNCHANGED <<wf_status, mailbox, credentials, pollers, _poller_instance,
                   executors, dispatched, requests>>
    /\ UNCHANGED <<vars, units>>

\* GmailPoller.start, lines 38 and 32: the sleep is over, is_running is found set and the
\* next tick begins
Sleep(t) ==
    /\ tasks[t].pc = "sleep"
    /\ pollers[tasks[t].instance].is_running
    /\ tasks[t].tick < MaxTicks
    /\ Scheduled(t)
    /\ tasks' = [tasks EXCEPT ![t] = [IdleTask EXCEPT !.kind = "poller", !.pc = "tick",
                                                      !.instance = tasks[t].instance,
                                                      !.tick = tasks[t].tick + 1]]
    /\ UNCHANGED <<wf_status, mailbox, credentials, pollers, _poller_instance,
                   executors, dispatched, requests>>
    /\ UNCHANGED <<vars, units>>

\* trigger_webhook without the test of Workflow.status at line 19
trigger_webhook_AnyStatus(workflow_id) ==
    /\ tasks["req"].kind = "none"
    /\ requests < MaxRequests
    /\ Scheduled("req")
    /\ requests' = requests + 1
    /\ tasks' = [tasks EXCEPT !["req"] =
                    [IdleTask EXCEPT !.kind = "webhook", !.workflow = workflow_id, !.pc = "json",
                                     !.selected = wf_status[workflow_id] = "published"]]
    /\ UNCHANGED <<wf_status, mailbox, credentials, pollers, _poller_instance,
                   executors, dispatched>>
    /\ UNCHANGED <<vars, units>>

\* trigger_webhook, lines 19-25: the workflow is selected if it is published, else the
\* answer is 404; the body of the request is awaited
trigger_webhook(workflow_id) ==
    /\ tasks["req"].kind = "none"
    /\ requests < MaxRequests
    /\ Scheduled("req")
    /\ requests' = requests + 1
    /\ tasks' = [tasks EXCEPT !["req"] =
                    [IdleTask EXCEPT !.kind = "webhook", !.workflow = workflow_id,
                                     !.selected = wf_status[workflow_id] = "published",
                                     !.pc = IF wf_status[workflow_id] = "published" THEN "json"
                                            ELSE "done",
                                     !.http = IF wf_status[workflow_id] = "published" THEN 0
                                              ELSE 404]]
    /\ UNCHANGED <<wf_status, mailbox, credentials, pollers, _poller_instance,
                   executors, dispatched>>
    /\ UNCHANGED <<vars, units>>

\* trigger_webhook, lines 25-30, and executor.py:31-39: the body is read, an executor is
\* constructed and execute is called; it creates the run and awaits its flush
WebhookExecute(t) ==
    /\ tasks[t].pc = "json"
    /\ Scheduled(t)
    /\ executors' = [executors EXCEPT ![ExecutorOf(t)] = {}]
    /\ tasks' = [tasks EXCEPT ![t].pc = "exec_flush",
                              ![t].call = NewCall(t, CallId(t, tasks[t]), tasks[t].workflow,
                                                  IF tasks[t].selected THEN "published" ELSE "draft",
                                                  "webhook", EmptyDict)]
    /\ UNCHANGED <<wf_status, mailbox, credentials, pollers, _poller_instance,
                   dispatched, requests>>
    /\ UNCHANGED <<vars, units>>

\* run_workflow (workflows.py:208-214) and executor.py:31-39: the workflow is selected
\* whatever its status, an executor is constructed and execute is called
run_workflow(workflow_id) ==
    /\ tasks["req"].kind = "none"
    /\ requests < MaxRequests
    /\ Scheduled("req")
    /\ requests' = requests + 1
    /\ executors' = [executors EXCEPT ![ExecutorOf("req")] = {}]
    /\ tasks' = [tasks EXCEPT !["req"] =
                    [IdleTask EXCEPT !.kind = "manual", !.workflow = workflow_id,
                                     !.selected = TRUE, !.pc = "exec_flush",
                                     !.call = NewCall("req", <<"req", requests + 1, <<>>, 0, 0>>,
                                                      workflow_id,
                                                      wf_status[workflow_id], "manual", EmptyDict)]]
    /\ UNCHANGED <<wf_status, mailbox, credentials, pollers, _poller_instance,
                   dispatched>>
    /\ UNCHANGED <<vars, units>>

\* poll_gmail_now (gmail.py:135-150): the gmail integration is selected whatever its
\* status, a GmailPoller is constructed and its _poll_integration is called
poll_gmail_now(integration_id) ==
    /\ tasks["req"].kind = "none"
    /\ requests < MaxRequests
    /\ Scheduled("req")
    /\ IntegrationRow(integration_id).type = <<"g", "m", "a", "i", "l">>
    /\ requests' = requests + 1
    /\ pollers' = ("req" :> GmailPoller) @@ pollers
    /\ tasks' = [tasks EXCEPT !["req"] =
                    [IdleTask EXCEPT !.kind = "poll_now", !.pc = "poll",
                                     !.instance = "req",
                                     !.integration = integration_id]]
    /\ UNCHANGED <<wf_status, mailbox, credentials, _poller_instance, executors,
                   dispatched>>
    /\ UNCHANGED <<vars, units>>

\* the answer of a request is sent and its task ends, and the objects it constructed
\* with it
RequestEnd(t) ==
    /\ tasks[t].pc = "done"
    /\ Scheduled(t)
    /\ tasks' = [tasks EXCEPT ![t] = IdleTask]
    /\ pollers' = [o \in DOMAIN pollers \ {t} |-> pollers[o]]
    /\ executors' = [executors EXCEPT ![ExecutorOf(t)] = {}]
    /\ UNCHANGED <<wf_status, mailbox, credentials, _poller_instance, dispatched, requests>>
    /\ UNCHANGED <<vars, units>>

\* publish_workflow (workflows.py:159-164)
publish_workflow(workflow_id) ==
    /\ Scheduled("none")
    /\ wf_status[workflow_id] = "draft"
    /\ wf_status' = [wf_status EXCEPT ![workflow_id] = "published"]
    /\ UNCHANGED <<mailbox, credentials, pollers, _poller_instance, tasks, executors,
                   dispatched, requests>>
    /\ UNCHANGED <<vars, units>>

\* unpublish_workflow (workflows.py:176-181)
unpublish_workflow(workflow_id) ==
    /\ Scheduled("none")
    /\ wf_status[workflow_id] = "published"
    /\ wf_status' = [wf_status EXCEPT ![workflow_id] = "draft"]
    /\ UNCHANGED <<mailbox, credentials, pollers, _poller_instance, tasks, executors,
                   dispatched, requests>>
    /\ UNCHANGED <<vars, units>>

\* a message arrives in the mailbox of an integration
Arrive(integration_id) ==
    /\ Clock < MaxMessages
    /\ mailbox' = [mailbox EXCEPT ![integration_id] =
                      Append(@, [message_id |-> Clock + 1, received_at |-> Clock + 1])]
    /\ UNCHANGED <<wf_status, credentials, pollers, _poller_instance, tasks,
                   executors, dispatched, requests>>
    /\ UNCHANGED <<vars, units>>

\* the process at its start: workflows of either status, no run of the executor
ServerInit ==
    /\ wf_status \in [WorkflowIds -> {"draft", "published"}]
    /\ mailbox = [g \in IntegrationIds |-> <<>>]
    /\ credentials = [g \in IntegrationIds |-> encrypt_credentials([access_token |-> 0])]
    /\ pollers = <<>>
    /\ _poller_instance = "none"
    /\ tasks = [t \in TaskIds |-> IdleTask]
    /\ executors = [t \in TaskIds \cup {"module"} |-> {}]
    /\ dispatched = {}
    /\ requests = 0
    /\ workflow = ServedWorkflows[1]
    /\ pc = "idle"
    /\ runs = <<>>
    /\ run = 0
    /\ node_runs = <<>>
    /\ context = EmptyDict
    /\ nodes_map = NodesMap(<<>>)
    /\ sorted_node_ids = <<>>
    /\ pos = 0
    /\ invoked = <<>>
    /\ raised = <<>>
    /\ UnitsOff

\* the poller's first tick with the requests that start runs and the routes that publish
\* and unpublish; a fetch may raise, the access token is not refreshed
ServerNext ==
    \/ start_gmail_poller
    \/ \E t \in TaskIds :
          \/ PollAll(t)
          \/ PollAllRaises(t)
          \/ Fetch(t, {"fetched", "raised"})
          \/ Stamp(t)
          \/ Match(t)
          \/ MatchRaises(t)
          \/ Dispatch(t)
          \/ ExecFlushOk(t)
          \/ ExecFlushRaises(t)
          \/ ExecNode(t)
          \/ ExecReturn(t)
          \/ FinishPoll(t)
          \/ WebhookExecute(t)
          \/ RequestEnd(t)
    \/ \E w \in WorkflowIds :
          \/ trigger_webhook(w)
          \/ run_workflow(w)
          \/ publish_workflow(w)
          \/ unpublish_workflow(w)
    \/ \E g \in Polled : Arrive(g)

Server == ServerInit /\ [][ServerNext]_server

\* the poller's first tick and the requests for a poll, without faults
PollNowNext ==
    \/ start_gmail_poller
    \/ \E t \in TaskIds :
          \/ PollAll(t)
          \/ Fetch(t, {"fetched"})
          \/ Stamp(t)
          \/ Match(t)
          \/ Dispatch(t)
          \/ ExecFlushOk(t)
          \/ ExecNode(t)
          \/ ExecReturn(t)
          \/ FinishPoll(t)
          \/ RequestEnd(t)
    \/ \E g \in IntegrationIds : poll_gmail_now(g)
    \/ \E g \in Watched : Arrive(g)

PollNow == ServerInit /\ [][PollNowNext]_server

\* the poller's task alone, with the mail that arrives
PollerNext ==
    \/ start_gmail_poller
    \/ PollAll("loop")
    \/ PollAllRaises("loop")
    \/ Fetch("loop", {"fetched", "refreshed", "raised"})
    \/ Stamp("loop")
    \/ Match("loop")
    \/ MatchRaises("loop")
    \/ Dispatch("loop")
    \/ ExecFlushOk("loop")
    \/ ExecFlushRaises("loop")
    \/ ExecNode("loop")
    \/ ExecReturn("loop")
    \/ FinishPoll("loop")
    \/ FinishPollRaises("loop")
    \/ Sleep("loop")
    \/ \E g \in Polled : Arrive(g)

Poller == ServerInit /\ [][PollerNext]_server

\* GmailPoller.start, lines 38 and 32: the sleep is over, is_running is found cleared and
\* start returns: the task of the loop is done
LoopEnds(t) ==
    /\ tasks[t].pc = "sleep"
    /\ ~pollers[tasks[t].instance].is_running
    /\ Scheduled(t)
    /\ tasks' = [tasks EXCEPT ![t].pc = "ended"]
    /\ UNCHANGED <<wf_status, mailbox, credentials, pollers, _poller_instance,
                   executors, dispatched, requests>>
    /\ UNCHANGED <<vars, units>>

\* stop_gmail_poller (lines 167-172), called by lifespan at shutdown (main.py:24-26):
\* stop() clears is_running of the instance (lines 40-43) and the global is set to None
stop_gmail_poller ==
    /\ _poller_instance # "none"
    /\ pollers' = [pollers EXCEPT ![_poller_instance].is_running = FALSE]
    /\ _poller_instance' = "none"
    /\ UNCHANGED <<wf_status, mailbox, credentials, tasks, executors, dispatched, requests>>
    /\ UNCHANGED <<vars, units>>

\* a step of the poller's task; the access token is not refreshed on the way, so the
\* credentials are not written back
LoopStep ==
    \/ PollAll("loop")
    \/ PollAllRaises("loop")
    \/ Fetch("loop", {"fetched", "raised"})
    \/ Stamp("loop")
    \/ Match("loop")
    \/ MatchRaises("loop")
    \/ Dispatch("loop")
    \/ ExecFlushOk("loop")
    \/ ExecFlushRaises("loop")
    \/ ExecNode("loop")
    \/ ExecReturn("loop")
    \/ FinishPoll("loop")
    \/ Sleep("loop")
    \/ LoopEnds("loop")

\* the poller's task from the start of the application to its shutdown
ShutdownNext ==
    \/ start_gmail_poller
    \/ stop_gmail_poller
    \/ LoopStep
    \/ \E g \in Polled : Arrive(g)

\* the event loop runs a task that can go on: every await of the poller's task returns
\* or raises, and the task is resumed
Shutdown == ServerInit /\ [][ShutdownNext]_server /\ WF_server(LoopStep)

(***************************************************************************)
(* The expression resolver called on its own (app/utils/expression.py).    *)
(***************************************************************************)
\* the executor and the server's process are not running
ProcessOff ==
    /\ ServerOff
    /\ workflow = ServedWorkflows[1]
    /\ pc = "idle"
    /\ runs = <<>>
    /\ run = 0
    /\ node_runs = <<>>
    /\ context = EmptyDict
    /\ nodes_map = NodesMap(<<>>)
    /\ sorted_node_ids = <<>>
    /\ pos = 0
    /\ invoked = <<>>
    /\ raised = <<>>

\* a call of interpolate with a template and a context, or of resolve_expression with a
\* path and a context
ExpressionsInit ==
    /\ ProcessOff
    /\ expr \in {ExprCall("interpolate", template, ctx) : template \in Templates, ctx \in Contexts}
                \cup {ExprCall("resolve_expression", VStr(path), ctx) :
                         path \in Paths(MaxPieces), ctx \in Contexts}
    /\ saved = NoWorkflow
    /\ timer = NoTimer
    /\ selection = NoSelection

\* interpolate(template, context) returns
CallInterpolate ==
    /\ expr.op = "interpolate"
    /\ expr.state = "called"
    /\ expr' = [expr EXCEPT !.state = "returned", !.result = interpolate(expr.arg, expr.context)]
    /\ UNCHANGED <<saved, timer, selection>>
    /\ UNCHANGED <<vars, server>>

\* resolve_expression(expression, context) returns
CallResolveExpression ==
    /\ expr.op = "resolve_expression"
    /\ expr.state = "called"
    /\ expr' = [expr EXCEPT !.state = "returned",
                            !.result = resolve_expression(expr.arg.v, expr.context)]
    /\ UNCHANGED <<saved, timer, selection>>
    /\ UNCHANGED <<vars, server>>

ExpressionsNext ==
    \/ CallInterpolate
    \/ CallResolveExpression

Expressions == ExpressionsInit /\ [][ExpressionsNext]_units

(***************************************************************************)
(* The routes that write a workflow's rows (app/routes/workflows.py).      *)
(***************************************************************************)
\* the WorkflowEdge rows made from the edges of a request body (lines 48-57, 125-134)
EdgeRows(edges) == [i \in 1..Len(edges) |-> WorkflowEdge(edges[i].source, edges[i].target)]

\* create_workflow, lines 18-65: the Workflow row, a WorkflowNode row for each node of the
\* body (its node_key the node's id in the body) and a WorkflowEdge row for each edge of
\* the body are added
create_workflow(payload) ==
    /\ ~saved.exists
    /\ saved' = [exists |-> TRUE, nodes |-> payload.nodes,
                  edges |-> EdgeRows(payload.edges)]
    /\ UNCHANGED <<expr, timer, selection>>
    /\ UNCHANGED <<vars, server>>

\* update_workflow, lines 90-150: the nodes are replaced when the body sets nodes, the
\* edges when it sets edges, each without the other
update_workflow(payload) ==
    /\ saved.exists
    /\ saved' = [saved EXCEPT
                     !.nodes = IF "nodes" \in payload.fields_set THEN payload.nodes ELSE @,
                     !.edges = IF "edges" \in payload.fields_set THEN EdgeRows(payload.edges) ELSE @]
    /\ UNCHANGED <<expr, timer, selection>>
    /\ UNCHANGED <<vars, server>>

\* no workflow has been created
EditorInit ==
    /\ ProcessOff
    /\ UnitsOff

EditorNext ==
    \/ \E nodes \in PayloadNodes, edges \in PayloadEdges :
          create_workflow([nodes |-> nodes, edges |-> edges])
    \/ \E fields_set \in SUBSET {"nodes", "edges"}, nodes \in PayloadNodes, edges \in PayloadEdges :
          update_workflow([fields_set |-> fields_set, nodes |-> nodes, edges |-> edges])

Editor == EditorInit /\ [][EditorNext]_units

(***************************************************************************)
(* The clock readings of _execute_node (app/engine/executor.py:80-117).    *)
(* Time is in milliseconds.                                                *)
(***************************************************************************)
\* the waits a flush or a handler may take
Waits == 0..MaxMillis

\* lines 80-86: the NodeRun is created with started_at = datetime.utcnow() and added
CreateNodeRun ==
    /\ timer.pc = "created"
    /\ timer' = [timer EXCEPT !.pc = "flush", !.started_at = timer.now]
    /\ UNCHANGED <<expr, saved, selection>>
    /\ UNCHANGED <<vars, server>>

\* lines 87-89: the flush returns after wait milliseconds and start_time = time.time()
FlushThenStartTimer(wait) ==
    /\ timer.pc = "flush"
    /\ timer' = [timer EXCEPT !.pc = "handler", !.now = @ + wait, !.start_time = timer.now + wait]
    /\ UNCHANGED <<expr, saved, selection>>
    /\ UNCHANGED <<vars, server>>

\* lines 91-116: the handler returns or raises after wait milliseconds; elapsed is taken
\* from start_time and completed_at from datetime.utcnow()
StopTimer(wait) ==
    /\ timer.pc = "handler"
    /\ timer' = [timer EXCEPT !.pc = "flush_done", !.now = @ + wait,
                              !.execution_time_ms = (timer.now + wait) - timer.start_time,
                              !.completed_at = timer.now + wait]
    /\ UNCHANGED <<expr, saved, selection>>
    /\ UNCHANGED <<vars, server>>

\* lines 117-118: the last flush returns after wait milliseconds and the NodeRun is returned
FlushFinished(wait) ==
    /\ timer.pc = "flush_done"
    /\ timer' = [timer EXCEPT !.pc = "finished", !.now = @ + wait]
    /\ UNCHANGED <<expr, saved, selection>>
    /\ UNCHANGED <<vars, server>>

\* _execute_node is called at some time of the clock
TimerInit ==
    /\ ProcessOff
    /\ expr = NoExpr
    /\ saved = NoWorkflow
    /\ timer \in {[NoTimer EXCEPT !.pc = "created", !.now = t] : t \in Waits}
    /\ selection = NoSelection

TimerNext ==
    \/ CreateNodeRun
    \/ \E wait \in Waits :
          \/ FlushThenStartTimer(wait)
          \/ StopTimer(wait)
          \/ FlushFinished(wait)

Timer == TimerInit /\ [][TimerNext]_units

(***************************************************************************)
(* _trigger_workflows alone (app/services/gmail_poller.py, lines 94-150),  *)
(* over tables of two workflows.                                           *)
(***************************************************************************)
\* _trigger_workflows(integration, messages) is called, with the Workflow table and the
\* status of each workflow as the select will find them
TriggersInit ==
    /\ ProcessOff
    /\ expr = NoExpr
    /\ saved = NoWorkflow
    /\ timer = NoTimer
    /\ \E table \in TriggerTables, i \in 1..Len(Integrations), n \in 1..2,
          status \in [{<<"w", "1">>, <<"w", "2">>} -> {"draft", "published"}] :
          selection = [state |-> "called", table |-> table, status |-> status,
                       integration |-> Integrations[i], messages |-> [m \in 1..n |-> m],
                       workflows |-> <<>>, calls |-> <<>>]

\* lines 96-124: the select and the loop over its rows; without a workflow for the
\* integration the call returns
SelectWorkflows ==
    /\ selection.state = "called"
    /\ LET gmail_workflows == GmailWorkflowsOf(selection.table, selection.integration, selection.status)
       IN  selection' = [selection EXCEPT !.workflows = gmail_workflows,
                                          !.state = IF gmail_workflows = <<>> THEN "returned"
                                                    ELSE "selected"]
    /\ UNCHANGED <<expr, saved, timer>>
    /\ UNCHANGED <<vars, server>>

\* lines 128-150: the next call of execute, for each message and for each workflow selected
ExecuteNext ==
    /\ selection.state = "selected"
    /\ LET p == Len(selection.calls)
           pair == [message |-> selection.messages[(p \div Len(selection.workflows)) + 1],
                    workflow |-> selection.workflows[(p % Len(selection.workflows)) + 1]]
           calls == Append(selection.calls, pair)
       IN  selection' = [selection EXCEPT
                            !.calls = calls,
                            !.state = IF Len(calls) = Len(selection.messages) * Len(selection.workflows)
                                      THEN "returned" ELSE "selected"]
    /\ UNCHANGED <<expr, saved, timer>>
    /\ UNCHANGED <<vars, server>>

TriggersNext ==
    \/ SelectWorkflows
    \/ ExecuteNext

Triggers == TriggersInit /\ [][TriggersNext]_units
(***************************************************************************)
(* Notions the properties are stated with.                                 *)
(***************************************************************************)
\* the run execute is working on or has returned
TheRun == runs[run]

\* the key of node number i of the workflow: its node_key, or its id when the key is empty
NodeKeyAt(i) ==
    IF workflow.nodes[i].node_key = <<>> THEN workflow.nodes[i].id ELSE workflow.nodes[i].node_key

\* the keys of the workflow's nodes
NodeKeys == {NodeKeyAt(i) : i \in 1..Len(workflow.nodes)}

\* the key of the node a NodeRun is of
KeyOfNodeRun(nr) ==
    NodeKeyAt(CHOOSE i \in 1..Len(workflow.nodes) : workflow.nodes[i].id = nr.node_id)

\* the edges between two nodes of the workflow, as pairs
NodeEdges ==
    {<<workflow.edges[i].source, workflow.edges[i].target>> : i \in 1..Len(workflow.edges)}
    \cap (NodeKeys \X NodeKeys)

\* the nodes reached from the set S of nodes by one edge or more
RECURSIVE ReachedFrom(_, _)
ReachedFrom(S, seen) ==
    LET nxt == {e[2] : e \in {d \in NodeEdges : d[1] \in S}} \ seen
    IN  IF nxt = {} THEN seen ELSE ReachedFrom(nxt, seen \cup nxt)

\* the edges contain a cycle among the nodes
HasCycle == \E k \in NodeKeys : k \in ReachedFrom({k}, {})

\* some edge names a key that is no node's
HasDanglingEdge ==
    \E i \in 1..Len(workflow.edges) :
        workflow.edges[i].source \notin NodeKeys \/ workflow.edges[i].target \notin NodeKeys

\* the places in node_runs of the NodeRuns of the node keyed k
RunsOfKey(k) == {i \in 1..Len(node_runs) : KeyOfNodeRun(node_runs[i]) = k}

\* the places in sorted_node_ids of the key k
PlacesOf(k) == {p \in 1..Len(sorted_node_ids) : sorted_node_ids[p] = k}

\* the value v is a string that mentions the text
Mentions(v, text) == v.t = "str" /\ Contains(v.v, text)

\* the value v is a string that begins with the text
BeginsWith(v, text) == v.t = "str" /\ IsPrefix(text, v.v)

(***************************************************************************)
(* C1: a workflow whose edges contain a cycle among its nodes has no       *)
(* handler invoked and no NodeRun written, and its run is returned failed  *)
(* with an error that mentions a cycle.                                    *)
(***************************************************************************)
C1_CycleFailsTheRun ==
    (pc = "returned" /\ HasCycle) =>
        /\ invoked = <<>>
        /\ node_runs = <<>>
        /\ TheRun.status = "failed"
        /\ Mentions(TheRun.error, <<"c", "y", "c", "l", "e">>)

(***************************************************************************)
(* C2: a run returned failed has exactly one failed NodeRun, all its other *)
(* NodeRuns are completed, and no node after the failed one in the order   *)
(* has a NodeRun.                                                          *)
(***************************************************************************)
\* the NodeRuns are: completed ones, then one failed one, that of the node at place pos of
\* the order, and no node later in the order has a NodeRun
OneFailedNodeRunLast ==
    /\ Cardinality({i \in 1..Len(node_runs) : node_runs[i].status = "failed"}) = 1
    /\ \A i \in 1..Len(node_runs) :
          node_runs[i].status = (IF i = Len(node_runs) THEN "failed" ELSE "completed")
    /\ \A p \in 1..Len(sorted_node_ids) :
          (\E q \in PlacesOf(KeyOfNodeRun(node_runs[Len(node_runs)])) : q < p)
              => ~\E i \in 1..Len(node_runs) :
                    KeyOfNodeRun(node_runs[i]) = sorted_node_ids[p]

\* the claim as made: violated when a flush of _execute_node raises
C2_FailedRunHasOneFailedNodeRun ==
    (pc = "returned" /\ TheRun.status = "failed") => OneFailedNodeRunLast

\* the claim as amended: for the runs that a failed node failed
C2_NodeFailedRunHasOneFailedNodeRun ==
    (pc = "returned" /\ TheRun.status = "failed" /\ BeginsWith(TheRun.error, <<"N", "o", "d", "e", " ">>))
        => OneFailedNodeRunLast

\* a run failed by its second node, with a third node in the workflow that never started
C2_Witness ==
    /\ pc = "returned"
    /\ TheRun.status = "failed"
    /\ BeginsWith(TheRun.error, <<"N", "o", "d", "e", " ">>)
    /\ Len(node_runs) = 2
    /\ Len(workflow.nodes) = 3

(***************************************************************************)
(* C3: when the handler of node K raises, K's NodeRun ends failed, no      *)
(* handler of a later node is invoked afterwards, the run ends failed and  *)
(* run.error begins with "Node K failed:".                                 *)
(***************************************************************************)
\* the calls of handler.execute that raised
RaisedCalls == {c \in 1..Len(invoked) : invoked[c].outcome = "raised"}

\* the claim as made: violated when the flush that ends _execute_node raises
C3_HandlerRaiseFailsRunWithNodeError ==
    \A c \in RaisedCalls :
        pc = "returned" =>
            /\ TheRun.status = "failed"
            /\ BeginsWith(TheRun.error, <<"N", "o", "d", "e", " ">> \o invoked[c].key \o <<" ", "f", "a", "i", "l", "e", "d", ":">>)

\* once a handler has raised no handler is called
NoCallAfterRaise == (RaisedCalls # {}) => (invoked' = invoked)

\* the state part of the amended claim
HandlerRaiseFailsRun ==
    \A c \in RaisedCalls :
        /\ c = Len(invoked)
        /\ \A i \in RunsOfKey(invoked[c].key) : node_runs[i].status = "failed"
        /\ RunsOfKey(invoked[c].key) # {}
        /\ pc \in {"break", "finalize", "returned", "raised"} =>
              /\ TheRun.status = "failed"
              /\ \/ BeginsWith(TheRun.error, <<"N", "o", "d", "e", " ">> \o invoked[c].key \o <<" ", "f", "a", "i", "l", "e", "d", ":">>)
                 \/ TheRun.error = VStr(format_exc(x_DBAPIError))

\* the claim as amended: run.error begins with "Node K failed:" unless the flush that ends
\* _execute_node raised, and then it is the traceback of that exception
C3_HandlerRaiseFailsRun == [][NoCallAfterRaise]_vars /\ []HandlerRaiseFailsRun

\* scenario S4: A completed, the handler of S raised, R never started
C3_Witness ==
    /\ pc = "returned"
    /\ RaisedCalls # {}
    /\ BeginsWith(TheRun.error, <<"N", "o", "d", "e", " ", "S", " ", "f", "a", "i", "l", "e", "d", ":">>)
    /\ Len(node_runs) = 2
    /\ node_runs[1].status = "completed"
    /\ \E p \in PlacesOf(<<"R">>) : p = 3

(***************************************************************************)
(* C4: a run is created running, changes to completed or failed once, and  *)
(* is not changed afterwards.                                              *)
(***************************************************************************)
\* a step leaves the status of a run that is no longer running alone, and creates runs running
StatusStep ==
    /\ \A i \in 1..Len(runs) : runs[i].status # "running" => runs'[i].status = runs[i].status
    /\ \A i \in 1..Len(runs') : i > Len(runs) => runs'[i].status = "running"

\* a run is running until execute is past its loop, and completed or failed from then on
StatusByPlace ==
    run # 0 =>
        IF pc = "break" THEN TheRun.status = "failed"
        ELSE IF pc \in {"finalize", "returned"} THEN TheRun.status \in {"completed", "failed"}
        ELSE (pc # "raised" => TheRun.status = "running")

C4_StatusChangesOnce == [][StatusStep]_vars /\ []StatusByPlace

\* a failed run has been returned, after a node of it completed
C4_Witness ==
    /\ pc = "returned"
    /\ TheRun.status = "failed"
    /\ \E i \in 1..Len(node_runs) : node_runs[i].status = "completed"

(***************************************************************************)
(* C5: a run returned completed has only completed or skipped NodeRuns,    *)
(* created in a topological order of the graph: for every edge u -> v      *)
(* between two nodes, u's NodeRun precedes v's.                            *)
(***************************************************************************)
C5_CompletedRunIsTopological ==
    (pc = "returned" /\ TheRun.status = "completed") =>
        /\ \A i \in 1..Len(node_runs) : node_runs[i].status \in {"completed", "skipped"}
        /\ \A e \in NodeEdges :
              \E i \in RunsOfKey(e[1]) : \E j \in RunsOfKey(e[2]) : i < j

(***************************************************************************)
(* C6: a completed run of a workflow with an acyclic graph has exactly |V| *)
(* NodeRuns, one for each node.                                            *)
(***************************************************************************)
C6_CompletedRunCoversNodes ==
    (pc = "returned" /\ TheRun.status = "completed" /\ ~HasCycle) =>
        /\ Len(node_runs) = Len(workflow.nodes)
        /\ \A k \in NodeKeys : Cardinality(RunsOfKey(k)) = 1

(***************************************************************************)
(* C7: a workflow with a dangling edge has its run returned failed and no  *)
(* handler invoked.                                                        *)
(***************************************************************************)
C7_DanglingEdgeFailsTheRun ==
    (pc = "returned" /\ HasDanglingEdge) => (TheRun.status = "failed" /\ invoked = <<>>)

(***************************************************************************)
(* C8: _topological_sort returns one order for a workflow, with the nodes  *)
(* that are at in-degree zero together taken in insertion order.           *)
(***************************************************************************)
\* the keys of nodes_map in the order the dict comprehension inserted them
InsertionOrder == [i \in 1..Len(workflow.nodes) |-> NodeKeyAt(i)]

\* the order is the one that draining the queue first in, first out gives when the nodes
\* without an edge into them start the queue in insertion order
C8_OrderIsFifoByInsertion ==
    pc \in {"loop", "break", "finalize", "returned"} =>
        sorted_node_ids = _topological_sort(NodesMap(workflow.nodes), workflow.edges, InsertionOrder)

(***************************************************************************)
(* C9: after node K's handler returns O the context maps K to {output: O}  *)
(* and a token {{K.output.f}} in the data of a later node resolves to O.f. *)
(***************************************************************************)
\* the NodeRuns before place j that completed for the node keyed k
CompletedBefore(k, j) == {i \in RunsOfKey(k) : i < j /\ node_runs[i].status = "completed"}

\* the value that the token {{A.output.f}} must have resolved to for the NodeRun at place j
OutputOfA(f, j) ==
    IF CompletedBefore(<<"A">>, j) = {} THEN VNone
    ELSE node_runs[CHOOSE i \in CompletedBefore(<<"A">>, j) : TRUE].output_data.v[f]

C10_OutputIsLastOutput ==
    (pc = "returned" /\ TheRun.status = "completed") =>
        IF node_runs = <<>> THEN TheRun.output_payload = EmptyDict
        ELSE /\ TheRun.output_payload = node_runs[Len(node_runs)].output_data
             /\ TheRun.output_payload = context.v[s_last_output]

\* a completed run of three nodes whose output is that of the last of them
C10_Witness ==
    /\ pc = "returned"
    /\ TheRun.status = "completed"
    /\ Len(node_runs) = 3
    /\ TheRun.output_payload = node_runs[3].output_data
    /\ node_runs[3].output_data # node_runs[1].output_data

(***************************************************************************)
(* C11: an exception raised by interpolation, by the handler lookup or by  *)
(* a handler's execute does not leave execute: what leaves execute is the  *)
(* exception of a flush only, and a run that execute returns has a         *)
(* terminal status and completed_at set, the last flush having returned.   *)
(***************************************************************************)
\* the NodeRuns that the except of lines 110-112 failed
CaughtNodeRuns == {i \in 1..Len(node_runs) : node_runs[i].status = "failed"}

C11_ExecuteDoesNotRethrow ==
    /\ pc = "raised" => raised = x_DBAPIError
    /\ pc # "raised" => raised = <<>>
    /\ pc = "returned" => (TheRun.status \in {"completed", "failed"} /\ TheRun.completed_at)
    /\ (CaughtNodeRuns # {} /\ pc \in {"break", "finalize", "returned"}) => TheRun.status = "failed"

\* the summarize handler raised for want of an API key and execute returned the run
C11_Witness ==
    /\ pc = "returned"
    /\ raised = <<>>
    /\ TheRun.completed_at
    /\ \E i \in CaughtNodeRuns : node_runs[i].error = VStr(format_exc(x_ApiKeyRequired))

(***************************************************************************)
(* C12: when the handler of a node whose type the registry lacks is looked *)
(* up, the node's NodeRun ends failed with the unknown-node-type error,    *)
(* no handler is called for it, and the run ends failed.                   *)
(***************************************************************************)
\* the NodeRuns, past the lookup of line 96, of nodes whose type the registry lacks
UnknownTypeNodeRuns ==
    {i \in 1..Len(node_runs) :
        /\ node_runs[i].input_data # VNone
        /\ nodes_map[KeyOfNodeRun(node_runs[i])].type \notin _HANDLERS}

C12_UnknownTypeFailsNodeAndRun ==
    \A i \in UnknownTypeNodeRuns :
        /\ node_runs[i].status = "failed"
        /\ Mentions(node_runs[i].error, <<"U", "n", "k", "n", "o", "w", "n", " ", "n", "o", "d", "e", " ", "t", "y", "p", "e">>)
        /\ \A c \in 1..Len(invoked) : invoked[c].key # KeyOfNodeRun(node_runs[i])
        /\ pc \in {"break", "finalize", "returned"} => TheRun.status = "failed"

\* A completed, then the node of an unknown type failed the run, and R never started
C12_Witness ==
    /\ pc = "returned"
    /\ Len(workflow.nodes) = 3
    /\ UnknownTypeNodeRuns = {2}
    /\ node_runs[1].status = "completed"
    /\ BeginsWith(TheRun.error, <<"N", "o", "d", "e", " ", "S", " ", "f", "a", "i", "l", "e", "d", ":">>)

(***************************************************************************)
(* Triggers, the poller and the tasks of the server                        *)
(***************************************************************************)
\* the calls of execute a task has made in its request or in its poll, running or ended
CallsOf(t) ==
    (IF tasks[t].call = NoCall THEN {} ELSE {tasks[t].call})
        \cup (IF tasks[t].poll = NoPoll THEN {}
              ELSE {tasks[t].poll.calls[i] : i \in 1..Len(tasks[t].poll.calls)})

\* C13: a run with trigger type webhook or gmail is created only for a workflow whose
\* status was published when the select of its trigger read it (webhooks.py:19,
\* gmail_poller.py:96-102), and a webhook call for a workflow that is a draft at that
\* select is answered 404 without a call of execute
C13_OnlyPublishedTriggered ==
    /\ \A t \in TaskIds : \A call \in CallsOf(t) :
          call.trigger_type \in {"webhook", "gmail"} => call.triggered = "published"
    /\ (tasks["req"].kind = "webhook" /\ ~tasks["req"].selected)
          => (tasks["req"].pc = "done" /\ tasks["req"].http = 404 /\ tasks["req"].call = NoCall)

\* a webhook call for a draft is answered 404 while the poll of the tick has made a call
\* for a published workflow
C13_Witness ==
    /\ tasks["req"].kind = "webhook" /\ tasks["req"].http = 404 /\ tasks["req"].call = NoCall
    /\ wf_status[tasks["req"].workflow] = "draft"
    /\ \E call \in CallsOf("loop") : call.trigger_type = "gmail" /\ call.triggered = "published"

\* the messages of the mailbox of g that the poller's next fetch will not return: those
\* not after its last_check
Behind(g) ==
    LET last_check == pollers[_poller_instance].last_check
    IN  IF g \in DOMAIN last_check
        THEN SelectSeq(mailbox[g], LAMBDA m : m.received_at <= last_check[g])
        ELSE <<>>

\* C14: when the poller sleeps, every message in the mailbox of an active integration
\* that its later fetches will not return has been dispatched to the executor for each
\* published workflow configured for the integration
C14_DeliveredAtLeastOnce ==
    tasks["loop"].pc = "sleep" =>
        \A k \in 1..Len(ActiveGmail) :
            LET g == ActiveGmail[k]
                gmail_workflows == GmailWorkflows(IntegrationRow(g), wf_status)
            IN  \A i \in 1..Len(Behind(g)), j \in 1..Len(gmail_workflows) :
                    <<g, Behind(g)[i].message_id, gmail_workflows[j]>> \in dispatched

\* the poll the poller's task is in, or the last it made in this tick
LoopPoll == tasks["loop"].poll

\* C15 as stated: a fetch that is answered in the first tick went through the unread-only
\* path with max_results 10, and one answered in the second tick through the time-window
\* path with max_results 50
C15_FirstUnreadSecondSince ==
    tasks["loop"].pc = "fetched" =>
        /\ LoopPoll.tick = 1 => (LoopPoll.path = "unread" /\ LoopPoll.max_results = UnreadMax)
        /\ LoopPoll.tick = 2 => (LoopPoll.path = "since" /\ LoopPoll.max_results = SinceMax)

\* C15, amended: a poll fetches through the unread-only path with max_results 10 when no
\* earlier fetch of the poller has returned for the integration, and through the
\* time-window path with max_results 50 when one has; a poll of the first tick is of the
\* first kind
C15_UnreadUntilAFetchReturned ==
    LoopPoll # NoPoll =>
        /\ LoopPoll.tick = 1 => ~LoopPoll.earlier
        /\ ~LoopPoll.earlier => (LoopPoll.path = "unread" /\ LoopPoll.max_results = UnreadMax)
        /\ LoopPoll.earlier => (LoopPoll.path = "since" /\ LoopPoll.max_results = SinceMax)

\* the second tick's poll of an integration fetched through the time-window path and
\* returned a message that arrived after the first tick's stamp
C15_Witness ==
    /\ LoopPoll # NoPoll /\ LoopPoll.tick = 2 /\ LoopPoll.earlier
    /\ LoopPoll.path = "since" /\ LoopPoll.messages # <<>> /\ LoopPoll.state = "returned"

\* the calls of execute made in the poll of the poller's task, in the order they were made
LoopCalls ==
    LoopPoll.calls \o (IF tasks["loop"].call = NoCall THEN <<>> ELSE <<tasks["loop"].call>>)

\* the message and the workflow of the p-th pair of a poll, messages in the order of the
\* fetch's answer and for each message the workflows in the order of the select's
PairAt(poll, p) ==
    [message |-> poll.messages[((p - 1) \div Len(poll.workflows)) + 1],
     workflow |-> poll.workflows[((p - 1) % Len(poll.workflows)) + 1]]

\* C16: the calls of execute made in one poll are the pairs of a fetched message and a
\* matching workflow, message by message in the order of the fetch's answer, each called
\* with trigger_type gmail and a payload of trigger_type gmail that holds the message;
\* a call is made after the call before it has ended, and when _trigger_workflows is
\* over every pair has been called once
C16_OneCallPerPairInOrder ==
    LoopPoll # NoPoll =>
        /\ ~LoopPoll.matched => LoopCalls = <<>>
        /\ LoopPoll.matched =>
              /\ Len(LoopCalls) <= Len(LoopPoll.messages) * Len(LoopPoll.workflows)
              /\ \A p \in 1..Len(LoopCalls) :
                    /\ LoopCalls[p].workflow = PairAt(LoopPoll, p).workflow
                    /\ LoopCalls[p].payload.body = PairAt(LoopPoll, p).message
                    /\ LoopCalls[p].payload.trigger_type = "gmail"
                    /\ LoopCalls[p].payload.integration_id = LoopPoll.integration
                    /\ LoopCalls[p].trigger_type = "gmail"
                    /\ p < Len(LoopCalls) => LoopCalls[p].state \in {"returned", "raised"}
              /\ tasks["loop"].pc \notin {"dispatch", "exec_flush", "exec_node"}
                    => /\ Len(LoopCalls) = Len(LoopPoll.messages) * Len(LoopPoll.workflows)
                       /\ \A p \in 1..Len(LoopCalls) : LoopCalls[p].state \in {"returned", "raised"}

\* a poll that fetched two messages for two workflows has returned after four calls, one
\* of which raised
C16_Witness ==
    /\ LoopPoll # NoPoll /\ LoopPoll.state = "returned"
    /\ Len(LoopPoll.messages) = 2 /\ Len(LoopPoll.workflows) = 2 /\ Len(LoopCalls) = 4
    /\ LoopCalls[2].state = "raised" /\ LoopCalls[3].state = "returned"

\* the integrations polled so far in the tick of the poller's task, in the order polled
PolledIntegrations ==
    [k \in 1..Len(tasks["loop"].polled) |-> tasks["loop"].polled[k].integration]

\* C17: when the poller sleeps after a tick whose select of the integrations returned,
\* every active gmail integration has been polled once in the tick, whether or not a
\* poll before it raised; the poller's task never ends, and from its sleep the next tick
\* can begin
C17_RaisedPollDoesNotAbort ==
    /\ (tasks["loop"].pc = "sleep" /\ tasks["loop"].selected) => PolledIntegrations = ActiveGmail
    /\ _poller_instance # "none" =>
          /\ tasks["loop"].kind = "poller"
          /\ tasks["loop"].pc \in {"tick", "poll", "fetched", "match", "dispatch", "exec_flush",
                                   "exec_node", "creds", "sleep"}
    /\ (tasks["loop"].pc = "sleep" /\ tasks["loop"].tick < MaxTicks) => ENABLED Sleep("loop")

\* the poll of the first active integration raised, the second was polled and returned
\* in the same tick, and this is the second tick
C17_Witness ==
    /\ tasks["loop"].pc = "sleep" /\ tasks["loop"].tick = 2
    /\ Len(tasks["loop"].polled) = 2
    /\ tasks["loop"].polled[1].outcome = "raised"
    /\ tasks["loop"].polled[2].outcome = "returned"

\* the access token changed during the poll of the poller's task
TokenChanged == LoopPoll.token # LoopPoll.credentials.access_token

\* C18 as stated: a poll that has ended has sealed and written the credentials if and
\* only if the access token changed during it
C18_PersistsIffTokenChanged ==
    (LoopPoll # NoPoll /\ LoopPoll.state \in {"returned", "raised"})
        => (LoopPoll.persisted <=> TokenChanged)

\* C18, amended: a poll seals and writes the credentials only if the access token changed
\* during it, and does so whenever it returns with the token changed; a poll that has not
\* returned, one that raised, and one that found the token unchanged leave the stored
\* credentials as the poll unsealed them
C18_PersistsChangedTokenOnReturn ==
    LoopPoll # NoPoll =>
        LET stored == credentials[LoopPoll.integration]
        IN  /\ LoopPoll.persisted => (TokenChanged /\ LoopPoll.state = "returned")
            /\ (LoopPoll.state = "returned" /\ TokenChanged) => LoopPoll.persisted
            /\ LoopPoll.persisted
                  => decrypt_credentials(stored) = [LoopPoll.credentials EXCEPT !.access_token = LoopPoll.token]
            /\ ~LoopPoll.persisted => stored = encrypt_credentials(LoopPoll.credentials)

\* a poll whose token was refreshed has returned and the stored credentials hold the new
\* token
C18_Witness ==
    /\ LoopPoll # NoPoll /\ LoopPoll.state = "returned" /\ TokenChanged /\ LoopPoll.persisted
    /\ decrypt_credentials(credentials[LoopPoll.integration]).access_token = LoopPoll.token
    /\ LoopPoll.messages # <<>>

\* C19: once the process-wide poller is started, every poll of an integration, by
\* whichever task, is made by that one GmailPoller object
C19_OnePollerInstance ==
    \A t \in TaskIds :
        (_poller_instance # "none" /\ tasks[t].poll # NoPoll)
            => tasks[t].poll.instance = _poller_instance

\* the tasks that are inside a call of execute
Executing == {t \in TaskIds : tasks[t].pc \in {"exec_flush", "exec_node"}}

\* C20: a node of a run resolves its expressions against entries of its own run only, the
\* context a run writes into holds entries of that run only, and two runs in flight at
\* once do not have the same executor
C20_ContextOwnedByOneRun ==
    /\ \A t \in TaskIds : \A call \in CallsOf(t) : call.saw \subseteq {call.id}
    /\ \A t \in Executing :
          tasks[t].pc = "exec_node"
              => \A entry \in executors[tasks[t].call.executor] : entry[1] = tasks[t].call.id
    /\ \A t, u \in Executing : t # u => tasks[t].call.executor # tasks[u].call.executor

\* a run of the poller and a run of a request are in flight at once, each has run a node
\* and resolved it against its own context
C20_Witness ==
    /\ Executing = TaskIds
    /\ \A t \in TaskIds : tasks[t].call.nodes >= 1 /\ tasks[t].call.saw = {tasks[t].call.id}
    /\ tasks["req"].kind \in {"webhook", "manual"}
    /\ Len(tasks["loop"].poll.calls) >= 1


(***************************************************************************)
(* C21: within one run at most one NodeRun is running at any time, and a   *)
(* node's handler is started only when every NodeRun made before it in the *)
(* run has finished.                                                       *)
(***************************************************************************)
\* the places in node_runs of the NodeRuns that are running
RunningNodeRuns == {i \in 1..Len(node_runs) : node_runs[i].status = "running"}

C26_NodeRunRecordsIdAndKey ==
    \A i \in 1..Len(node_runs) :
        node_runs[i].status \in {"completed", "failed"} =>
            /\ \E n \in 1..Len(workflow.nodes) : workflow.nodes[n].id = node_runs[i].node_id
            /\ node_runs[i].node_key = VStr(KeyOfNodeRun(node_runs[i]))

(***************************************************************************)
(* C29: a node's handler is invoked only after the source of every edge    *)
(* into the node has a completed NodeRun in the run.                       *)
(***************************************************************************)
\* the nodes that are the source of an edge into the node keyed k
SourcesInto(k) == {e[1] : e \in {d \in NodeEdges : d[2] = k}}

C29_SourcesCompletedFirst ==
    \A c \in 1..Len(invoked) :
        /\ RunsOfKey(invoked[c].key) # {}
        /\ \A u \in SourcesInto(invoked[c].key) :
              \A j \in RunsOfKey(invoked[c].key) : CompletedBefore(u, j) # {}

\* a handler has been invoked for a node with an edge into it from another node
C29_Witness ==
    \E c \in 1..Len(invoked) :
        /\ SourcesInto(invoked[c].key) # {}
        /\ invoked[c].outcome = "returned"

(***************************************************************************)
(* C30: once a poll's fetch has answered with messages and the poll has    *)
(* gone on to match or execute, last_check holds for the integration a     *)
(* time not before any fetched message and not after now, and it still     *)
(* does when the matching or an execution raised.                          *)
(***************************************************************************)
C30_StampedBeforeProcessing ==
    (LoopPoll # NoPoll /\ LoopPoll.messages # <<>> /\ tasks["loop"].pc # "fetched") =>
        LET last_check == pollers[LoopPoll.instance].last_check
            g == LoopPoll.integration
        IN  /\ g \in DOMAIN last_check
            /\ last_check[g] <= Clock
            /\ \A k \in 1..Len(LoopPoll.messages) : LoopPoll.messages[k].received_at <= last_check[g]

\* a poll of the second tick fetched a message through the time window, its matching
\* raised, and last_check is at that message or after it
C30_Witness ==
    /\ LoopPoll # NoPoll /\ LoopPoll.tick = 2 /\ LoopPoll.path = "since"
    /\ LoopPoll.messages # <<>> /\ ~LoopPoll.matched /\ LoopPoll.state = "raised"
    /\ LoopPoll.integration \in DOMAIN pollers[LoopPoll.instance].last_check
    /\ pollers[LoopPoll.instance].last_check[LoopPoll.integration] >= LoopPoll.messages[1].received_at

(***************************************************************************)
(* Notions of the claims on expressions.                                   *)
(***************************************************************************)
\* the call of the function op has returned
Returned(op) == expr.op = op /\ expr.state = "returned"

\* a token begins at position i of the string s
TokenAt(s, i) == OpenAt(s, i) /\ Closers(s, i) # {}

\* the position after the token that begins at position i
TokenEnd(s, i) == (CHOOSE j \in Closers(s, i) : \A k \in Closers(s, i) : j <= k) + 2

\* the string s is one token and nothing else
ExactlyOneToken(s) == TokenAt(s, 1) /\ TokenEnd(s, 1) = Len(s) + 1

\* the path of the token that begins at position i
TokenPath(s, i) == SubSeq(s, i + 2, TokenEnd(s, i) - 3)

\* the template x holds a token, at any depth
RECURSIVE ContainsToken(_)
ContainsToken(x) ==
    CASE IsStr(x)  -> \E i \in 1..Len(x.v) : TokenAt(x.v, i)
      [] IsDict(x) -> \E k \in DOMAIN x.v : ContainsToken(x.v[k])
      [] IsList(x) -> \E i \in 1..Len(x.v) : ContainsToken(x.v[i])
      [] OTHER     -> FALSE

\* the string s from position i on, with each token replaced by the string form of the
\* value its path resolves to, by nothing when it resolves to None
RECURSIVE Replaced(_, _, _)
Replaced(s, i, ctx) ==
    IF i > Len(s) THEN <<>>
    ELSE IF TokenAt(s, i)
    THEN LET val == resolve_expression(TokenPath(s, i), ctx)
         IN  (IF val = VNone THEN <<>> ELSE PyStr(val)) \o Replaced(s, TokenEnd(s, i), ctx)
    ELSE <<s[i]>> \o Replaced(s, i + 1, ctx)

(***************************************************************************)
(* C22: for a string that is not exactly one token, interpolate returns    *)
(* the string with each token replaced by the string form of its value and *)
(* the text around the tokens kept, also when the string begins with "{{"  *)
(* and ends with "}}".                                                     *)
(***************************************************************************)
C22_EveryTokenSubstituted ==
    (Returned("interpolate") /\ IsStr(expr.arg) /\ ~ExactlyOneToken(expr.arg.v)) =>
        expr.result = VStr(Replaced(expr.arg.v, 1, expr.context))

(***************************************************************************)
(* C23: a segment applied to a list is an index from 0: a segment that is  *)
(* no integer, a negative one, and one at the length or beyond resolve to  *)
(* None.                                                                   *)
(***************************************************************************)
\* one step of the walk with the list indexed from 0 only
IndexStep(current, part) ==
    IF IsList(current)
    THEN LET r == ParseInt(part)
         IN  IF r.ok /\ r.n >= 0 /\ r.n < Len(current.v) THEN current.v[r.n + 1] ELSE VNone
    ELSE ResolveStep(current, part)

\* the walk of the segments from current, ended by the first None
RECURSIVE IndexWalk(_, _)
IndexWalk(current, parts) ==
    IF parts = <<>> THEN current
    ELSE LET nxt == IndexStep(current, Head(parts))
         IN  IF nxt = VNone THEN VNone ELSE IndexWalk(nxt, Tail(parts))

C23_ListIndexFromZero ==
    Returned("resolve_expression") =>
        expr.result = IndexWalk(expr.context, Split(Strip(expr.arg.v)))

(***************************************************************************)
(* C24: for a string that is exactly one token, interpolate returns the    *)
(* value the token's path resolves to, as it is and not as a string, and   *)
(* None when the path does not resolve.                                    *)
(***************************************************************************)
C24_SingleTokenKeepsType ==
    (Returned("interpolate") /\ IsStr(expr.arg) /\ ExactlyOneToken(expr.arg.v)) =>
        LET val == resolve_expression(TokenPath(expr.arg.v, 1), expr.context)
        IN  /\ expr.result = val
            /\ ~IsStr(val) => ~IsStr(expr.result)

\* the one-token strings for a mapping, a list and a number returned the mapping, the
\* list and the number
C24_Witness ==
    /\ Returned("interpolate") /\ IsStr(expr.arg) /\ ExactlyOneToken(expr.arg.v)
    /\ expr.context # EmptyDict
    /\ \/ expr.arg.v = <<"{", "{", "b", "}", "}">> /\ expr.result = VDict(<<"a">> :> VStr(<<"h", "i">>))
       \/ expr.arg.v = <<"{", "{", " ", "l", ".", "1", " ", "}", "}">> /\ expr.result = VList(<<VNum(8), VNum(9)>>)
       \/ expr.arg.v = <<"{", "{", "a", "}", "}">> /\ expr.result = VNum(1)

(***************************************************************************)
(* C25: interpolate returns a template that holds no token as it is,       *)
(* whatever the context.                                                   *)
(***************************************************************************)
C25_TokenFreeIsUnchanged ==
    (Returned("interpolate") /\ ~ContainsToken(expr.arg)) => expr.result = expr.arg

\* a nested template with braces that form no token was returned as it is
C25_Witness ==
    /\ Returned("interpolate")
    /\ expr.context # EmptyDict
    /\ expr.arg = VDict((<<"k">> :> VList(<<VDict(<<"j">> :> VStr(<<"{", "{", "}", "}">>))>>)) @@ (<<"n">> :> VNone))
    /\ expr.result = expr.arg

(***************************************************************************)
(* C27: every edge of a stored workflow has a source and a target that are *)
(* keys of nodes of the workflow.                                          *)
(***************************************************************************)
\* the keys of the stored nodes
SavedKeys == {KeyOf(saved.nodes[n]) : n \in 1..Len(saved.nodes)}

C27_EdgesNameStoredNodes ==
    saved.exists =>
        \A i \in 1..Len(saved.edges) :
            saved.edges[i].source \in SavedKeys /\ saved.edges[i].target \in SavedKeys

(***************************************************************************)
(* C28: for a finished NodeRun execution_time_ms is not negative and is    *)
(* within 1 ms of completed_at - started_at.                               *)
(***************************************************************************)
C28_ElapsedMatchesTimestamps ==
    timer.pc = "finished" =>
        LET between == timer.completed_at - timer.started_at
        IN  /\ timer.execution_time_ms >= 0
            /\ timer.execution_time_ms - between <= 1
            /\ between - timer.execution_time_ms <= 1

(***************************************************************************)
(* The executor's NodeRuns and context over one run (app/engine/executor.py).*)
(***************************************************************************)
\* C33: when execute has returned, no NodeRun of the run is left in status 'running' or
\* 'pending', the runs in which a flush inside _execute_node raised included
C33_NoNodeRunLeftRunning ==
    pc = "returned" =>
        \A i \in DOMAIN node_runs :
            node_runs[i].run_id = run => node_runs[i].status \notin {"running", "pending"}

\* C38: in one run no node gets more than one NodeRun, whatever the edge list
C38_OneNodeRunPerNode ==
    \A i, j \in DOMAIN node_runs :
        (i # j /\ node_runs[i].run_id = node_runs[j].run_id)
            => node_runs[i].node_id # node_runs[j].node_id

\* a run has returned whose workflow names one edge twice, and the target of that edge ran
C38_Witness ==
    /\ pc = "returned"
    /\ \E i, j \in 1..Len(workflow.edges) :
          /\ i < j
          /\ workflow.edges[i] = workflow.edges[j]
          /\ workflow.edges[i].source # workflow.edges[i].target
          /\ RunsOfKey(workflow.edges[i].target) # {}

\* a NodeRun that has its timing: execution_time_ms and completed_at are set and the status
\* is final
Timed(nr) ==
    nr.execution_time_ms /\ nr.completed_at /\ nr.status \in {"completed", "failed"}

\* C39: while a node's data is interpolated or its handler runs, its NodeRun is there,
\* 'running' with started_at, its flush awaited; a NodeRun that left 'running' has
\* execution_time_ms and completed_at, and when the loop turns to the next node every
\* NodeRun of the run has them and its second flush has been awaited
C39_NodeRunBracketsTheNode ==
    /\ pc \in {"node", "handler"} =>
          /\ node_runs # <<>>
          /\ node_runs[Len(node_runs)].node_id = nodes_map[sorted_node_ids[pos]].id
          /\ node_runs[Len(node_runs)].status = "running"
          /\ node_runs[Len(node_runs)].started_at
    /\ pc = "node" => node_runs[Len(node_runs)].input_data = VNone
    /\ Len(invoked) <= Len(node_runs)
    /\ \A i \in DOMAIN node_runs :
          /\ node_runs[i].status # "running" => Timed(node_runs[i])
          /\ (i < Len(node_runs) \/ pc \in {"loop", "break"}) => Timed(node_runs[i])

\* the second node of a run is about to be interpolated, after the first one completed
C39_Witness ==
    /\ pc = "node"
    /\ Len(node_runs) = 2
    /\ node_runs[1].status = "completed"

\* the keys of the context dict ctx
ContextKeys(ctx) == DOMAIN ctx.v

\* the executor's write of lines 102-103 is the whole difference between ctx and after:
\* the node's key and '_last_output' are set and every other key keeps its value
OnlyNodeKeyWritten(ctx, after, node) ==
    /\ ContextKeys(after) = ContextKeys(ctx) \cup {KeyOf(node), s_last_output}
    /\ \A k \in ContextKeys(ctx) \ {KeyOf(node), s_last_output} : after.v[k] = ctx.v[k]

C34_RaisedFetchKeepsWindow ==
    [][\A t \in TaskIds :
          (tasks[t].pc = "poll" /\ tasks'[t] # tasks[t]) =>
              /\ tasks'[t].pc # "fetched" =>
                    /\ tasks'[t].poll.state = "raised"
                    /\ pollers'[tasks[t].instance].last_check = pollers[tasks[t].instance].last_check
              /\ tasks'[t].poll.path =
                    IF tasks[t].integration \in DOMAIN pollers[tasks[t].instance].last_check
                    THEN "since" ELSE "unread"]_server

\* the fetch of the second tick raised on the time-window path, and the window of the first
\* tick is still recorded although mail has arrived since
C34_Witness ==
    /\ LoopPoll # NoPoll /\ LoopPoll.tick = 2
    /\ LoopPoll.state = "raised" /\ LoopPoll.path = "since"
    /\ LoopPoll.integration \in DOMAIN pollers["loop"].last_check
    /\ pollers["loop"].last_check[LoopPoll.integration] < Clock

\* the node is of type email_trigger and its data is a dict whose trigger_config is a dict
\* whose integration_id is the string integration_id
ConfiguredFor(node, integration_id) ==
    /\ node.type = s_email_trigger
    /\ IsDict(node.data)
    /\ <<"t", "r", "i", "g", "g", "e", "r", "_", "c", "o", "n", "f", "i", "g">> \in DOMAIN node.data.v
    /\ IsDict(node.data.v[<<"t", "r", "i", "g", "g", "e", "r", "_", "c", "o", "n", "f", "i", "g">>])
    /\ <<"i", "n", "t", "e", "g", "r", "a", "t", "i", "o", "n", "_", "i", "d">> \in DOMAIN node.data.v[<<"t", "r", "i", "g", "g", "e", "r", "_", "c", "o", "n", "f", "i", "g">>].v
    /\ node.data.v[<<"t", "r", "i", "g", "g", "e", "r", "_", "c", "o", "n", "f", "i", "g">>].v[<<"i", "n", "t", "e", "g", "r", "a", "t", "i", "o", "n", "_", "i", "d">>] = VStr(integration_id)

\* the workflow w of the table is published, owned by the integration's user and has a
\* node configured for the integration
ToBeTriggered(w) ==
    /\ selection.status[w.id] = "published"
    /\ w.user_id = selection.integration.user_id
    /\ \E k \in 1..Len(w.nodes) : ConfiguredFor(w.nodes[k], selection.integration.id)

\* the places of the workflow id among the workflows selected
SelectedAt(id) == {k \in 1..Len(selection.workflows) : selection.workflows[k] = id}

\* C36: once _trigger_workflows has made its selection, a workflow of the table is among
\* the selected ones exactly when it is published, owned by the integration's user and has
\* an email_trigger node whose trigger_config names the integration as a string, and then
\* once; when the call has returned, execute was called once for each message and each
\* such workflow and for no other
C36_DispatchedIffConfigured ==
    selection.state \in {"selected", "returned"} =>
        \A i \in 1..Len(selection.table) :
            LET w == selection.table[i]
            IN  /\ Cardinality(SelectedAt(w.id)) = IF ToBeTriggered(w) THEN 1 ELSE 0
                /\ selection.state = "returned" =>
                      \A m \in 1..Len(selection.messages) :
                          Cardinality({c \in 1..Len(selection.calls) :
                                          selection.calls[c] = [message |-> selection.messages[m],
                                                                workflow |-> w.id]})
                              = IF ToBeTriggered(w) THEN 1 ELSE 0

\* two messages were dispatched to a workflow that has two nodes configured for the
\* integration, and to it alone: the other workflow is configured as well, and published,
\* but belongs to another user
C36_Witness ==
    /\ selection.state = "returned"
    /\ Len(selection.messages) = 2
    /\ Len(selection.calls) = 2
    /\ \E i, j \in 1..Len(selection.table) :
          /\ ToBeTriggered(selection.table[i])
          /\ Cardinality({k \in 1..Len(selection.table[i].nodes) :
                             ConfiguredFor(selection.table[i].nodes[k], selection.integration.id)}) = 2
          /\ selection.table[j].user_id # selection.integration.user_id
          /\ selection.status[selection.table[j].id] = "published"
          /\ \E k \in 1..Len(selection.table[j].nodes) :
                ConfiguredFor(selection.table[j].nodes[k], selection.integration.id)

(***************************************************************************)
(* One executor, several runs (app/engine/executor.py).                    *)
(***************************************************************************)
\* the context that execute builds for the current run, with what the executor wrote for
\* each NodeRun of nrs that belongs to the current run and is completed
RECURSIVE ContextFrom(_, _)
ContextFrom(ctx, nrs) ==
    IF nrs = <<>> THEN ctx
    ELSE LET nr == Head(nrs)
         IN  ContextFrom(IF nr.run_id = run /\ nr.status = "completed"
                         THEN DictSet(DictSet(ctx, nr.node_key.v, VDict(s_output :> nr.output_data)),
                                      s_last_output, nr.output_data)
                         ELSE ctx,
                         Tail(nrs))

\* C37: from the moment execute has built the context of a run, the context is made of
\* that run alone: trigger, workflow and env of the run, and the outputs of the nodes that
\* completed in it; before the first node it holds the three entries only, whatever the
\* runs the executor made before left behind
C37_ContextStartsFresh ==
    pc \in {"loop", "flush_node_run", "node", "handler", "flush_node_done", "break"} =>
        /\ context = ContextFrom(InitialContext(workflow, TheRun.input_payload, TheRun.trigger_type),
                                 node_runs)
        /\ (pc = "loop" /\ pos = 1) =>
              ContextKeys(context) = {s_trigger, <<"w", "o", "r", "k", "f", "l", "o", "w">>, <<"e", "n", "v">>}

\* the second run of an executor is at its first node, after a first run in which a node
\* completed and stored its output and the next node failed
C37_Witness ==
    /\ run = 2
    /\ pc = "loop" /\ pos = 1
    /\ runs[1].status = "failed"
    /\ \E i \in DOMAIN node_runs : node_runs[i].run_id = 1 /\ node_runs[i].status = "completed"

(***************************************************************************)
(* The poller and the poll-now route together (app/services/gmail_poller.py,*)
(* app/routes/gmail.py).                                                   *)
(***************************************************************************)
\* C31: no step dispatches a message of an integration to a workflow that the same message
\* was dispatched to before, by the poller's task or by a request for a poll
C31_NoMessageDispatchedTwice ==
    [][\A t \in TaskIds :
          (tasks[t].pc = "dispatch" /\ tasks'[t].pc = "exec_flush") => dispatched' # dispatched]_server

\* C32: every message that was dispatched to a workflow came from an integration whose
\* status is 'active', whether the poller's task or a request for a poll dispatched it
C32_DispatchedFromActiveOnly ==
    \A d \in dispatched : IntegrationRow(d[1]).status = <<"a", "c", "t", "i", "v", "e">>

(***************************************************************************)
(* The poller's loop and stop() (app/services/gmail_poller.py, lines 27-43).*)
(***************************************************************************)
\* stop() has been called on the poller of the application
Stopped == "loop" \in DOMAIN pollers /\ ~pollers["loop"].is_running

\* the tick the poller's task was in is complete: the select of the integrations raised, or
\* each active integration was polled, in the order of the select
TickComplete ==
    tasks["loop"].selected =>
        [k \in 1..Len(tasks["loop"].polled) |-> tasks["loop"].polled[k].integration] = ActiveGmail

====
